---- MODULE Spec2Model ----
(***************************************************************************)
(* Model of the GoAutoGui input layer (package windows): the keyboard      *)
(* driver of keyboard.go, the mouse driver of mouse.go and the screen      *)
(* metrics and capture engine.                                             *)
(*                                                                         *)
(* Every exported operation is one action.  An action records the native   *)
(* calls the operation makes (keybd_event, mouse_event, time.Sleep), in    *)
(* order, in the variable events, and its result in the variable last.     *)
(* The ambient state of the operating system that the code reads at each   *)
(* call (button-swap flag, primary display size, keyboard layout, cursor   *)
(* position, monitors) is state of the model, changed by environment       *)
(* actions.                                                                *)
(***************************************************************************)
EXTENDS Integers, Sequences, FiniteSets, TLC

VARIABLES
    swapped,     \* GetSystemMetrics(SM_SWAPBUTTON) != 0
    screen,      \* <<SM_CXSCREEN, SM_CYSCREEN>>
    vkTable,     \* the active layout: what VkKeyScanW returns for a character
    hc,          \* the HoldContext held by the caller: [keys, live]
    hcArgs,      \* the keys given to the Hold call that returned hc
    hcLog,       \* every event emitted through hc, by that Hold call included
    hcReleases,  \* number of Release calls made on hc
    events,      \* native calls made by the last operation, in order
    last,        \* the last operation: [op, err, ...arguments]
    faulty,      \* TRUE when sendKeyboardEvent may report an error
    cursor,      \* the cursor position: what GetCursorPos returns
    monitors     \* rectangles of the monitors besides the primary display

vars == <<swapped, screen, vkTable, hc, hcArgs, hcLog, hcReleases,
          events, last, faulty, cursor, monitors>>

----------------------------------------------------------------------------
(* Bounds *)

MaxKeys == 3        \* longest key list given to Hold, HotKey, VPress
MaxText == 2        \* longest string given to Press, TypeWrite, Write
MaxPresses == 2     \* largest repetition count given to Press, VPress
MaxReleases == 2    \* Release calls made on one HoldContext
MaxPixels == 3      \* pixels kept of a pixel buffer, from its first one on

----------------------------------------------------------------------------
(* Sequences *)

RECURSIVE Reverse(_)
Reverse(s) == IF s = <<>> THEN <<>> ELSE Reverse(Tail(s)) \o <<Head(s)>>

SeqsUpTo(S, len) == UNION {[1..k -> S] : k \in 0..len}

Min(a, b) == IF a < b THEN a ELSE b
Max(a, b) == IF a > b THEN a ELSE b

\* Go's integer division truncates toward zero (b > 0 here).
TruncDiv(a, b) == IF a >= 0 THEN a \div b ELSE -((-a) \div b)

----------------------------------------------------------------------------
(* time.Duration.  A Duration is an int64 count of nanoseconds; it is kept  *)
(* here as ms milliseconds plus ns nanoseconds, 0 <= ns < 1000000, so that  *)
(* every value stays inside TLC's 32-bit integers.                          *)

NsPerMs == 1000000

Dur(ms, ns) == [ms |-> ms, ns |-> ns]

\* time.Millisecond
Millisecond == Dur(1, 0)

\* dur > 0
DurPositive(dur) == dur.ms > 0 \/ (dur.ms = 0 /\ dur.ns > 0)

\* dur * time.Millisecond: the nanosecond count of dur multiplied by 1000000,
\* that is, as many milliseconds as dur has nanoseconds.
MulMillisecond(dur) == Dur(dur.ms * NsPerMs + dur.ns, 0)

\* The intervals callers pass: 0, the bare 10 of the tests, and the
\* 250*time.Millisecond of the README.
Intervals == {Dur(0, 0), Dur(0, 10), Dur(250, 0)}

----------------------------------------------------------------------------
(* Events: one record shape for every native call. *)

Nil == "nil"

\* What an operation did and returned: the native calls it made, in order,
\* and its error.
Ok(ev) == [ev |-> ev, err |-> Nil]
Fail(ev, e) == [ev |-> ev, err |-> e]

\* The record of a call: its name, its arguments and what it returned.
\* keysAfter is the caller's key slice as the call left it, res the value
\* returned besides the error; swap, dim and layout are the button-swap flag,
\* the display size and the keyboard layout when the call was made, f the
\* ordinal of the failing sendKeyboardEvent call (0: none), start the cursor
\* position when the call was made, duration the float64 seconds given to
\* DragTo, in milliseconds, size the width and height given to a capture
\* call, outcome what the native calls of a capture call returned, buf the
\* memory the capture call read the pixels from, img the image it returned.
Call(op) ==
    [err |-> Nil, op |-> op, keys |-> <<>>, keysAfter |-> <<>>, text |-> <<>>,
     n |-> 0, interval |-> Dur(0, 0), mb |-> 0, px |-> 0, py |-> 0,
     res |-> 0, swap |-> FALSE, dim |-> <<0, 0>>, layout |-> <<>>, f |-> 0,
     start |-> <<0, 0>>, duration |-> 0, size |-> <<0, 0>>, outcome |-> "ok",
     buf |-> <<>>, img |-> [pixels |-> 0, pix |-> <<>>]]

KeyEv(code, release) ==
    [kind |-> "key", vk |-> code, up |-> release, flags |-> {},
     x |-> 0, y |-> 0, data |-> 0, d |-> Dur(0, 0)]

SleepEv(dur) ==
    [kind |-> "sleep", vk |-> 0, up |-> FALSE, flags |-> {},
     x |-> 0, y |-> 0, data |-> 0, d |-> dur]

MouseEv(fl, cx, cy, dw) ==
    [kind |-> "mouse", vk |-> 0, up |-> FALSE, flags |-> fl,
     x |-> cx, y |-> cy, data |-> dw, d |-> Dur(0, 0)]

\* win32.SetCursorPos(x, y)
CursorEv(cx, cy) ==
    [kind |-> "cursor", vk |-> 0, up |-> FALSE, flags |-> {},
     x |-> cx, y |-> cy, data |-> 0, d |-> Dur(0, 0)]

\* A call of the Win32 function name.  got tells what the call returned:
\* TRUE for a handle or success, FALSE for zero; lastError that its error
\* result was not ERROR_SUCCESS (flag LastError).  A call whose result the
\* code does not look at is recorded with got = TRUE.
NativeEv(name, got, lastError) ==
    [kind |-> "native", vk |-> 0, up |-> FALSE,
     flags |-> IF lastError THEN {name, "LastError"} ELSE {name},
     x |-> 0, y |-> 0, data |-> IF got THEN 1 ELSE 0, d |-> Dur(0, 0)]

Native(name) == <<NativeEv(name, TRUE, FALSE)>>

\* time.Sleep(d)
Sleep(dur) == <<SleepEv(dur)>>

\* A run-time panic: the call that made it and its callers make no further
\* call and do not return.
PanicEv(msg) ==
    [kind |-> "panic", vk |-> 0, up |-> FALSE, flags |-> {msg},
     x |-> 0, y |-> 0, data |-> 0, d |-> Dur(0, 0)]

Panics(ev) == ev # <<>> /\ ev[Len(ev)].kind = "panic"

\* What a function whose last calls are ev hands to its caller: its return
\* values, or the panic.
Sent(ev) == IF Panics(ev) THEN Fail(ev, "panic") ELSE Ok(ev)


----------------------------------------------------------------------------
(* Keys and characters *)

VK_SHIFT == 16
VK_CONTROL == 17
VK_C == 67

Keys == {VK_CONTROL, VK_SHIFT, VK_C}

\* Characters are code points: a A ! (ASCII), E-acute (U+00C9, two bytes of
\* UTF-8) and the euro sign (U+20AC, three bytes).
Chars == {97, 65, 33, 201, 8364}

ShiftChars ==
    {126, 33, 64, 35, 36, 37, 94, 38, 42, 40, 41, 95, 43,
     123, 125, 124, 58, 34, 60, 62, 63}

\* Characters given to isShiftCharacter: the punctuation of shiftChars, the
\* characters typed, and z Z 1 space, e-acute (U+00E9) and the multiplication
\* sign (U+00D7).
ShiftProbes == ShiftChars \cup Chars \cup {122, 90, 49, 32, 233, 215}

\* len(string(r)): the number of UTF-8 bytes of a rune
Utf8Len(c) == IF c < 128 THEN 1 ELSE IF c < 2048 THEN 2 ELSE IF c < 65536 THEN 3 ELSE 4

\* strings.ToUpper / strings.ToLower on a single rune (ASCII and Latin-1)
ToUpper(c) ==
    IF c \in 97..122 THEN c - 32
    ELSE IF c \in 224..254 /\ c # 247 THEN c - 32
    ELSE c

ToLower(c) ==
    IF c \in 65..90 THEN c + 32
    ELSE IF c \in 192..222 /\ c # 215 THEN c + 32
    ELSE c

isShiftCharacter(c) ==
    \/ Utf8Len(c) = 1 /\ c \in ShiftChars
    \/ Utf8Len(c) = 1 /\ c = ToUpper(c) /\ c # ToLower(c)

\* VkKeyScanW results: low byte the virtual key, high byte the shift state
\* (1 shift, 2 ctrl, 4 alt), or -1 when the layout has no key for the
\* character.
NoVk == 0 - 1
ShiftState == 256

LayoutUS == [c \in Chars |->
    CASE c = 97 -> 65
      [] c = 65 -> ShiftState + 65
      [] c = 33 -> ShiftState + 49
      [] OTHER -> NoVk]

\* German layout: the euro sign is AltGr+E (ctrl+alt), E-acute needs a dead key.
LayoutDE == [c \in Chars |->
    CASE c = 97 -> 65
      [] c = 65 -> ShiftState + 65
      [] c = 33 -> ShiftState + 49
      [] c = 8364 -> 6 * ShiftState + 69
      [] OTHER -> NoVk]

\* Canadian French layout: E-acute is Shift plus the e-acute key (VK_OEM_2).
LayoutCF == [c \in Chars |->
    CASE c = 97 -> 65
      [] c = 65 -> ShiftState + 65
      [] c = 33 -> ShiftState + 49
      [] c = 201 -> ShiftState + 191
      [] OTHER -> NoVk]

Layouts == {LayoutUS, LayoutDE, LayoutCF}

VkKeyScanW(c) == vkTable[c]

----------------------------------------------------------------------------
(* keyboard.go *)

\* sendKeyboardEvent calls keybd_event with byte(vk) and returns nil.  The
\* callers test its result; fails stands for a native layer that reports an
\* error there (no event is emitted then).  It is FALSE in every call made
\* under Spec.
sendKeyboardEvent(vk, up, fails) ==
    IF fails THEN Fail(<<>>, "keybd_event") ELSE Ok(<<KeyEv(vk % 256, up)>>)

VKeyDown(key, fails) ==
    LET r == sendKeyboardEvent(key, FALSE, fails)
    IN  IF r.err # Nil THEN Fail(r.ev, "failed to press key") ELSE Ok(r.ev)

VKeyUp(key, fails) ==
    LET r == sendKeyboardEvent(key, TRUE, fails)
    IN  IF r.err # Nil THEN Fail(r.ev, "failed to press key") ELSE Ok(r.ev)

\* The vkCode and needsShift that KeyDown and KeyUp compute for a rune whose
\* lookup succeeded.
ScanVk(scan) == IF scan > 256 THEN scan - 256 ELSE scan
ScanNeedsShift(c, scan) == IF scan > 256 THEN TRUE ELSE isShiftCharacter(c)

KeyDown(c) ==
    LET scan == VkKeyScanW(c)
    IN  IF scan = NoVk THEN Fail(<<>>, "there is no vk code for key")
        ELSE LET sh == IF ScanNeedsShift(c, scan)
                       THEN sendKeyboardEvent(VK_SHIFT, FALSE, FALSE)
                       ELSE Ok(<<>>)
                 k  == sendKeyboardEvent(ScanVk(scan), FALSE, FALSE)
             IN  IF sh.err # Nil THEN Fail(sh.ev, "failed to press shift key")
                 ELSE IF k.err # Nil THEN Fail(sh.ev \o k.ev, "failed to press key")
                 ELSE Ok(sh.ev \o k.ev)

\* KeyUp releasing the main key only.
KeyUp_keepsShift(c) ==
    LET scan == VkKeyScanW(c)
    IN  IF scan = NoVk THEN Fail(<<>>, "there is no vk code for key")
        ELSE LET k == sendKeyboardEvent(ScanVk(scan), TRUE, FALSE)
             IN  IF k.err # Nil THEN Fail(k.ev, "failed to press key")
                 ELSE Ok(k.ev)

KeyUp(c) ==
    LET scan == VkKeyScanW(c)
    IN  IF scan = NoVk THEN Fail(<<>>, "there is no vk code for key")
        ELSE LET sh == IF ScanNeedsShift(c, scan)
                       THEN sendKeyboardEvent(VK_SHIFT, TRUE, FALSE)
                       ELSE Ok(<<>>)
                 k  == sendKeyboardEvent(ScanVk(scan), TRUE, FALSE)
             IN  IF sh.err # Nil THEN Fail(sh.ev, "failed to press shift key")
                 ELSE IF k.err # Nil THEN Fail(sh.ev \o k.ev, "failed to press key")
                 ELSE Ok(sh.ev \o k.ev)

\* The inner loop of Press: KeyDown then KeyUp of every rune, stopping at the
\* first error.
RECURSIVE PressKeys(_)
PressKeys(keys) ==
    IF keys = <<>> THEN Ok(<<>>)
    ELSE LET dn == KeyDown(Head(keys))
         IN  IF dn.err # Nil THEN Fail(dn.ev, "failed to press key down")
             ELSE LET up == KeyUp(Head(keys))
                  IN  IF up.err # Nil
                      THEN Fail(dn.ev \o up.ev, "failed to release key")
                      ELSE LET rest == PressKeys(Tail(keys))
                           IN  [ev |-> dn.ev \o up.ev \o rest.ev, err |-> rest.err]

\* Repetitions i, i+1, .., presses-1 of Press.
RECURSIVE PressFrom(_, _, _, _)
PressFrom(keys, i, presses, interval) ==
    IF ~(i < presses) THEN Ok(<<>>)
    ELSE LET r == PressKeys(keys)
         IN  IF r.err # Nil THEN r
             ELSE LET sl   == IF i < presses - 1 THEN Sleep(interval) ELSE <<>>
                      rest == PressFrom(keys, i + 1, presses, interval)
                  IN  [ev |-> r.ev \o sl \o rest.ev, err |-> rest.err]

\* Press sleeping after every repetition, the last included.
RECURSIVE Press_sleepAfterEach(_, _, _)
Press_sleepAfterEach(keys, presses, interval) ==
    IF ~(0 < presses) THEN Ok(<<>>)
    ELSE LET r == PressKeys(keys)
         IN  IF r.err # Nil THEN r
             ELSE LET rest == Press_sleepAfterEach(keys, presses - 1, interval)
                  IN  [ev |-> r.ev \o Sleep(interval) \o rest.ev, err |-> rest.err]

Press(keys, presses, interval) == PressFrom(keys, 0, presses, interval)

\* The inner loop of VPress.
RECURSIVE VPressKeys(_)
VPressKeys(keys) ==
    IF keys = <<>> THEN Ok(<<>>)
    ELSE LET dn == VKeyDown(Head(keys), FALSE)
         IN  IF dn.err # Nil THEN Fail(dn.ev, "failed to press key down")
             ELSE LET up == VKeyUp(Head(keys), FALSE)
                  IN  IF up.err # Nil
                      THEN Fail(dn.ev \o up.ev, "failed to release key")
                      ELSE LET rest == VPressKeys(Tail(keys))
                           IN  [ev |-> dn.ev \o up.ev \o rest.ev, err |-> rest.err]

RECURSIVE VPressFrom(_, _, _, _)
VPressFrom(keys, i, presses, interval) ==
    IF ~(i < presses) THEN Ok(<<>>)
    ELSE LET r == VPressKeys(keys)
         IN  IF r.err # Nil THEN r
             ELSE LET sl   == IF i < presses - 1 THEN Sleep(interval) ELSE <<>>
                      rest == VPressFrom(keys, i + 1, presses, interval)
                  IN  [ev |-> r.ev \o sl \o rest.ev, err |-> rest.err]

VPress(presses, interval, keys) == VPressFrom(keys, 0, presses, interval)

\* The cleanup loop of Hold: for _, pk := range pressed { _ = VKeyUp(pk) }
RECURSIVE HoldCleanup(_)
HoldCleanup(pressed) ==
    IF pressed = <<>> THEN <<>>
    ELSE VKeyUp(Head(pressed), FALSE).ev \o HoldCleanup(Tail(pressed))

\* Hold from key i on; f is the ordinal of the sendKeyboardEvent call that
\* reports an error (0: none).  The result carries the HoldContext returned:
\* live is FALSE for the nil handle.
RECURSIVE HoldFrom(_, _, _, _)
HoldFrom(keys, i, pressed, f) ==
    IF i > Len(keys)
    THEN [ev |-> <<>>, err |-> Nil, keys |-> pressed, live |-> TRUE]
    ELSE LET dn == VKeyDown(keys[i], i = f)
         IN  IF dn.err # Nil
             THEN [ev |-> dn.ev \o HoldCleanup(pressed),
                   err |-> "failed to press key down", keys |-> <<>>, live |-> FALSE]
             ELSE LET rest == HoldFrom(keys, i + 1, Append(pressed, keys[i]), f)
                  IN  [rest EXCEPT !.ev = dn.ev \o rest.ev]

Hold(keys, f) == HoldFrom(keys, 1, <<>>, f)

\* HoldContext.Release from index i down; call is the ordinal of the VKeyUp
\* being made.  The result carries hc.keys as the call leaves it.
RECURSIVE ReleaseFrom(_, _, _, _)
ReleaseFrom(keys, i, call, f) ==
    IF ~(i >= 1) THEN [ev |-> <<>>, err |-> Nil, keys |-> <<>>]
    ELSE LET up == VKeyUp(keys[i], call = f)
         IN  IF up.err # Nil
             THEN [ev |-> up.ev, err |-> "failed to release key", keys |-> keys]
             ELSE LET rest == ReleaseFrom(keys, i - 1, call + 1, f)
                  IN  [rest EXCEPT !.ev = up.ev \o rest.ev]

\* Release going through the keys in press order.
Release_forward(keys, f) == ReleaseFrom(Reverse(keys), Len(keys), 1, f)

Release(keys, f) == ReleaseFrom(keys, Len(keys), 1, f)

\* TypeWrite sleeping between characters only, not after the last one.
RECURSIVE TypeWrite_noLastSleep(_, _)
TypeWrite_noLastSleep(message, interval) ==
    IF message = <<>> THEN Ok(<<>>)
    ELSE LET r == Press(<<Head(message)>>, 1, Dur(0, 0))
         IN  IF r.err # Nil THEN Fail(r.ev, "failed to type character")
             ELSE LET sl   == IF DurPositive(interval) /\ Len(message) > 1
                              THEN Sleep(MulMillisecond(interval))
                              ELSE <<>>
                      rest == TypeWrite_noLastSleep(Tail(message), interval)
                  IN  [ev |-> r.ev \o sl \o rest.ev, err |-> rest.err]

\* The loop of TypeWrite.
RECURSIVE TypeWrite(_, _)
TypeWrite(message, interval) ==
    IF message = <<>> THEN Ok(<<>>)
    ELSE LET r == Press(<<Head(message)>>, 1, Dur(0, 0))
         IN  IF r.err # Nil THEN Fail(r.ev, "failed to type character")
             ELSE LET sl   == IF DurPositive(interval)
                              THEN Sleep(MulMillisecond(interval))
                              ELSE <<>>
                      rest == TypeWrite(Tail(message), interval)
                  IN  [ev |-> r.ev \o sl \o rest.ev, err |-> rest.err]

Write(message, interval) == TypeWrite(message, interval)

\* The two loops of HotKey: key down then Sleep for every key; key up then
\* Sleep for every key of the reversed slice.
RECURSIVE HotKeyDowns(_, _)
HotKeyDowns(keys, interval) ==
    IF keys = <<>> THEN Ok(<<>>)
    ELSE LET dn == VKeyDown(Head(keys), FALSE)
         IN  IF dn.err # Nil THEN Fail(dn.ev, "failed to release key")
             ELSE LET rest == HotKeyDowns(Tail(keys), interval)
                  IN  [ev |-> dn.ev \o Sleep(interval) \o rest.ev, err |-> rest.err]

RECURSIVE HotKeyUps(_, _)
HotKeyUps(keys, interval) ==
    IF keys = <<>> THEN Ok(<<>>)
    ELSE LET up == VKeyUp(Head(keys), FALSE)
         IN  IF up.err # Nil THEN Fail(up.ev, "failed to release key")
             ELSE LET rest == HotKeyUps(Tail(keys), interval)
                  IN  [ev |-> up.ev \o Sleep(interval) \o rest.ev, err |-> rest.err]

\* HotKey without the reversal.
HotKeySwap_none(keys) == keys

\* keys[i], keys[j] = keys[j], keys[i] for i, j closing in from the ends
HotKeySwap(keys) == [i \in 1..Len(keys) |-> keys[Len(keys) + 1 - i]]

\* HotKey releasing the keys in reverse order but leaving the caller's slice
\* as it was.
HotKey_reversesCopy(interval, keys) ==
    IF Len(keys) = 0
    THEN [ev |-> <<>>, err |-> "no keys provided for HotKey", keys |-> keys]
    ELSE LET dn == HotKeyDowns(keys, interval)
         IN  IF dn.err # Nil THEN [ev |-> dn.ev, err |-> dn.err, keys |-> keys]
             ELSE LET rev == HotKeySwap(keys)
                      up  == HotKeyUps(rev, interval)
                  IN  [ev |-> dn.ev \o up.ev, err |-> up.err, keys |-> keys]

\* The result carries the caller's slice as the call leaves it.
HotKey(interval, keys) ==
    IF Len(keys) = 0
    THEN [ev |-> <<>>, err |-> "no keys provided for HotKey", keys |-> keys]
    ELSE LET dn == HotKeyDowns(keys, interval)
         IN  IF dn.err # Nil THEN [ev |-> dn.ev, err |-> dn.err, keys |-> keys]
             ELSE LET rev == HotKeySwap(keys)
                      up  == HotKeyUps(rev, interval)
                  IN  [ev |-> dn.ev \o up.ev, err |-> up.err, keys |-> rev]

----------------------------------------------------------------------------
(* mouse.go *)

MouseLeftButton == 0
MouseMiddleButton == 1
MouseRightButton == 2
MouseX1Button == 3
MouseX2Button == 4
MousePrimaryButton == 5
MouseSecondaryButton == 6

\* MouseButton is an int: the seven constants and two values outside them.
Buttons == (0 - 1)..7

\* The dwData of the X buttons: the X button number, 1 or 2 (mouse.go:95).
KEY_XBUTTON1 == 1
KEY_XBUTTON2 == 2

Screens == {<<1920, 1080>>, <<800, 600>>}
Points == {<<0, 0>>, <<100, 150>>, <<799, 599>>, <<0 - 5, 20>>, <<1, 1>>}

\* Sizes GetSystemMetrics may report besides those of Screens: a display of
\* one pixel, one of two by two pixels, and a strip one pixel high.
SmallScreens == {<<1, 1>>, <<2, 2>>, <<800, 1>>}

\* Points of the virtual desktop given to the scroll calls: those of Points,
\* the point of the tests, and one right of and below every primary display.
ScrollPoints == Points \cup {<<300, 300>>, <<2000, 1200>>}

\* Wheel amounts: the 3 and -3 notches of the tests, none, and one raw unit.
Notches == {0 - 3, 0, 1, 3}

\* A monitor <<Left, Top, Right, Bottom>> left of the primary display: its
\* points have negative x coordinates.
LeftMonitor == <<0 - 800, 0, 0, 600>>

\* The monitors besides the primary display: none, or one on its left.
MonitorLayouts == {<<>>, <<LeftMonitor>>}

InRect(p, r) == r[1] <= p[1] /\ p[1] < r[3] /\ r[2] <= p[2] /\ p[2] < r[4]

\* p is a point of the virtual desktop made of a primary display of size sc
\* and the monitors mons.
OnDesktop(p, sc, mons) ==
    \/ InRect(p, <<0, 0, sc[1], sc[2]>>)
    \/ \E i \in 1..Len(mons) : InRect(p, mons[i])

\* Where the cursor may be: a corner of the primary display, the start of
\* the drag test, the last pixel of the smaller display, a point of the
\* left monitor.
CursorPoints == {<<0, 0>>, <<469, 577>>, <<799, 599>>, <<0 - 5, 20>>}

\* Offsets given to Move: those of the test and of the README, and two that
\* leave the primary display.
MoveOffsets == {<<10, 15>>, <<0, 10>>, <<0 - 600, 0 - 700>>, <<2000, 30>>}

\* Targets given to DragTo and SetCursorPosition: the README's, a point of
\* the left monitor, and the places where the cursor may already be.
DragTargets == {<<500, 500>>, <<0 - 300, 200>>} \cup CursorPoints

\* Points given to OnScreen besides the centre of the primary display: the
\* (-10, -10) of the test, points on the edges of the 800x600 display, and
\* those of ScrollPoints.
ProbePoints ==
    ScrollPoints \cup {<<0 - 10, 0 - 10>>, <<800, 300>>, <<300, 600>>, <<300, 0 - 1>>}

\* Regions <<x, y, width, height>> given to the capture calls: that of the
\* tests, one whose far corner is on the larger display only, one that
\* starts left of the primary display, regions of zero width, of negative
\* width and of no area, one too large for a 32-bit int, and one of two
\* pixels.
Regions ==
    {<<100, 100, 200, 200>>, <<700, 500, 200, 200>>, <<0 - 5, 20, 10, 10>>,
     <<100, 100, 0, 10>>, <<10, 10, 0 - 5, 10>>, <<0, 0, 0, 0>>,
     <<0, 0, 40000, 40000>>, <<0, 0, 2, 1>>}

\* Sizes <<w, h>> of the window given to CaptureWindow.
WindowSizes == {<<2, 1>>, <<640, 480>>}

\* Display indexes given to GetDisplayBounds and CaptureDisplay.
DisplayIndexes == (0 - 1)..2

\* Durations given to DragTo, in milliseconds: 0, 0.1 s, the 0.2 s of the
\* test and the 2 s of the README, 0.101 s, and 0.8 s, which is 1 ms for
\* each pixel of the width of the smaller display.
DragDurations == {0, 100, 101, 200, 800, 2000}

IsMouseSwapped == swapped

GetScreenDimensions == [X |-> screen[1], Y |-> screen[2]]

\* Normalization that takes Primary for Left and Secondary for Right whatever
\* the swap flag.
normalizeMouseButton_ignoresSwap(mb) ==
    CASE mb \in {MouseLeftButton, MouseMiddleButton, MouseRightButton,
                 MouseX1Button, MouseX2Button} -> [err |-> Nil, mb |-> mb]
      [] mb = MousePrimaryButton -> [err |-> Nil, mb |-> MouseLeftButton]
      [] mb = MouseSecondaryButton -> [err |-> Nil, mb |-> MouseRightButton]
      [] OTHER -> [err |-> "invalid mouse button", mb |-> 0 - 1]

normalizeMouseButton(mb) ==
    CASE mb \in {MouseLeftButton, MouseMiddleButton, MouseRightButton,
                 MouseX1Button, MouseX2Button} -> [err |-> Nil, mb |-> mb]
      [] mb = MousePrimaryButton ->
            IF IsMouseSwapped THEN [err |-> Nil, mb |-> MouseRightButton]
            ELSE [err |-> Nil, mb |-> MouseLeftButton]
      [] mb = MouseSecondaryButton ->
            IF IsMouseSwapped THEN [err |-> Nil, mb |-> MouseLeftButton]
            ELSE [err |-> Nil, mb |-> MouseRightButton]
      [] OTHER -> [err |-> "invalid mouse button", mb |-> 0 - 1]

\* The coordinates handed to mouse_event.  An integer division by zero is a
\* run-time panic.
sendMouseEvent(event, x, y, dwData) ==
    LET dim == GetScreenDimensions
        convertedX == TruncDiv(x * 65535, dim.X - 1)
        convertedY == TruncDiv(y * 65535, dim.Y - 1)
    IN  IF dim.X - 1 = 0 \/ dim.Y - 1 = 0
        THEN <<PanicEv("integer divide by zero")>>
        ELSE <<MouseEv(event, convertedX, convertedY, dwData)>>

MouseDown(mb, x, y) ==
    LET n == normalizeMouseButton(mb)
        event == CASE n.mb = MouseLeftButton -> {"LEFTDOWN"}
                   [] n.mb = MouseRightButton -> {"RIGHTDOWN"}
                   [] n.mb = MouseMiddleButton -> {"MIDDLEDOWN"}
                   [] n.mb \in {MouseX1Button, MouseX2Button} -> {"XDOWN"}
                   [] OTHER -> {}
        dwData == CASE n.mb = MouseX1Button -> KEY_XBUTTON1
                    [] n.mb = MouseX2Button -> KEY_XBUTTON2
                    [] OTHER -> 0
    IN  IF n.err # Nil THEN Fail(<<>>, n.err)
        ELSE Sent(sendMouseEvent(event, x, y, dwData))

MouseUp(mb, x, y) ==
    LET n == normalizeMouseButton(mb)
        event == CASE n.mb = MouseLeftButton -> {"LEFTUP"}
                   [] n.mb = MouseRightButton -> {"RIGHTUP"}
                   [] n.mb = MouseMiddleButton -> {"MIDDLEUP"}
                   [] n.mb \in {MouseX1Button, MouseX2Button} -> {"XUP"}
                   [] OTHER -> {}
        dwData == CASE n.mb = MouseX1Button -> KEY_XBUTTON1
                    [] n.mb = MouseX2Button -> KEY_XBUTTON2
                    [] OTHER -> 0
    IN  IF n.err # Nil THEN Fail(<<>>, n.err)
        ELSE Sent(sendMouseEvent(event, x, y, dwData))

MOUSEEVENTF_LEFTCLICK == {"LEFTDOWN", "LEFTUP"}
MOUSEEVENTF_RIGHTCLICK == {"RIGHTDOWN", "RIGHTUP"}
MOUSEEVENTF_MIDDLECLICK == {"MIDDLEDOWN", "MIDDLEUP"}

\* The loop of ClickAt: clicks calls of sendMouseEvent.
RECURSIVE ClickLoop(_, _, _, _, _)
ClickLoop(event, x, y, i, clicks) ==
    IF ~(i < clicks) THEN <<>>
    ELSE LET sent == sendMouseEvent(event \cup {"ABSOLUTE", "MOVE"}, x, y, 0)
         IN  IF Panics(sent) THEN sent
             ELSE sent \o ClickLoop(event, x, y, i + 1, clicks)

\* ClickAt letting the X buttons through.
ClickAt_acceptsX(mb, x, y, clicks) ==
    IF mb \notin {MouseLeftButton, MouseRightButton, MouseMiddleButton,
                  MouseX1Button, MouseX2Button}
    THEN Fail(<<>>, "mouse button must be one of MouseLeftButton, MouseRightButton, or Middle")
    ELSE LET event == CASE mb = MouseLeftButton -> MOUSEEVENTF_LEFTCLICK
                        [] mb = MouseRightButton -> MOUSEEVENTF_RIGHTCLICK
                        [] mb = MouseMiddleButton -> MOUSEEVENTF_MIDDLECLICK
                        [] OTHER -> {"XDOWN", "XUP"}
         IN  Sent(ClickLoop(event, x, y, 0, clicks))

ClickAt(mb, x, y, clicks) ==
    IF mb # MouseLeftButton /\ mb # MouseRightButton /\ mb # MouseMiddleButton
    THEN Fail(<<>>, "mouse button must be one of MouseLeftButton, MouseRightButton, or Middle")
    ELSE LET event == CASE mb = MouseLeftButton -> MOUSEEVENTF_LEFTCLICK
                        [] mb = MouseRightButton -> MOUSEEVENTF_RIGHTCLICK
                        [] mb = MouseMiddleButton -> MOUSEEVENTF_MIDDLECLICK
         IN  Sent(ClickLoop(event, x, y, 0, clicks))

Click(mb, x, y) == ClickAt(mb, x, y, 1)
LeftClick(x, y) == Click(MouseLeftButton, x, y)
RightClick(x, y) == Click(MouseRightButton, x, y)
MiddleClick(x, y) == Click(MouseMiddleButton, x, y)
X1Click(x, y) == Click(MouseX1Button, x, y)
X2Click(x, y) == Click(MouseX2Button, x, y)

PrimaryClick(x, y) ==
    LET n == normalizeMouseButton(MousePrimaryButton)
    IN  IF n.err # Nil THEN Fail(<<>>, "invalid primary mouse button")
        ELSE Click(n.mb, x, y)

SecondaryClick(x, y) ==
    LET n == normalizeMouseButton(MouseSecondaryButton)
    IN  IF n.err # Nil THEN Fail(<<>>, "invalid secondary mouse button")
        ELSE Click(n.mb, x, y)

DoubleClick(mb, x, y) == ClickAt(mb, x, y, 2)
TripleClick(mb, x, y) == ClickAt(mb, x, y, 3)

\* win32.WHEEL_DELTA
WHEEL_DELTA == 120

\* Scroll handing the caller's point to sendMouseEvent as given.
Scroll_noClamp(x, y, notches) ==
    LET dwData == notches * WHEEL_DELTA
    IN  Sent(sendMouseEvent({"WHEEL"}, x, y, dwData))

Scroll(x, y, notches) ==
    LET dim == GetScreenDimensions
        cx == Max(0, Min(x, dim.X - 1))
        cy == Max(0, Min(y, dim.Y - 1))
        dwData == notches * WHEEL_DELTA
    IN  Sent(sendMouseEvent({"WHEEL"}, cx, cy, dwData))

ScrollRaw(x, y, dwData) ==
    LET dim == GetScreenDimensions
        cx == Max(0, Min(x, dim.X - 1))
        cy == Max(0, Min(y, dim.Y - 1))
    IN  Sent(sendMouseEvent({"WHEEL"}, cx, cy, dwData))

HorizontalScroll(x, y, notches) ==
    LET dim == GetScreenDimensions
        cx == Max(0, Min(x, dim.X - 1))
        cy == Max(0, Min(y, dim.Y - 1))
    IN  Sent(sendMouseEvent({"HWHEEL"}, cx, cy, notches))

VerticalScroll(x, y, notches) == Scroll(x, y, notches)

\* OnScreen taking every monitor of the virtual desktop for the screen.
OnScreen_anyMonitor(x, y) == OnDesktop(<<x, y>>, screen, monitors)

OnScreen(x, y) ==
    LET p == GetScreenDimensions
    IN  0 <= x /\ x < p.X /\ 0 <= y /\ y < p.Y

\* Position reads the cursor with GetCursorPos.
Position == [X |-> cursor[1], Y |-> cursor[2]]

SetCursorPosition(x, y) == <<CursorEv(x, y)>>

\* Move setting the cursor to the sum as it is.
Move_noClamp(x, y) ==
    LET currentPos == Position
    IN  Ok(SetCursorPosition(currentPos.X + x, currentPos.Y + y))

Move(x, y) ==
    LET currentPos == Position
        dim == GetScreenDimensions
        newX == Max(0, Min(currentPos.X + x, dim.X - 1))
        newY == Max(0, Min(currentPos.Y + y, dim.Y - 1))
    IN  Ok(SetCursorPosition(newX, newY))

\* Lerp(x1, y1, x2, y2, t) + 0.5 on one axis for t = i/numSteps, as the exact
\* fraction num/den with den > 0:
\*   x1 + (x2 - x1) * i / numSteps + 1/2
\*     = (2 * x1 * numSteps + 2 * (x2 - x1) * i + numSteps) / (2 * numSteps)
LerpHalfNum(x1, x2, i, numSteps) ==
    2 * x1 * numSteps + 2 * (x2 - x1) * i + numSteps
LerpHalfDen(numSteps) == 2 * numSteps

\* int(tween + 0.5): the conversion of a float64 to int drops the fraction
\* (it rounds toward zero).
TweenInt(x1, x2, i, numSteps) ==
    TruncDiv(LerpHalfNum(x1, x2, i, numSteps), LerpHalfDen(numSteps))

\* MINIMUM_DURATION = 0.1 s and MINIMUM_SLEEP = 0.001 s, in milliseconds
MINIMUM_DURATION == 100
MINIMUM_SLEEP == 1

\* The step count left at one step for each pixel of the larger dimension.
DragNumSteps_perPixel(ms) ==
    LET dim == GetScreenDimensions
    IN  Max(dim.X, dim.Y)

\* The step count of the interpolated path for a duration of ms
\* milliseconds: sleepAmount = duration / numSteps is below MINIMUM_SLEEP
\* exactly when ms < numSteps * MINIMUM_SLEEP, and int(duration /
\* MINIMUM_SLEEP) drops the fraction of ms / MINIMUM_SLEEP.
DragNumSteps(ms) ==
    LET dim == GetScreenDimensions
        numSteps == Max(dim.X, dim.Y)
    IN  IF ms < numSteps * MINIMUM_SLEEP THEN TruncDiv(ms, MINIMUM_SLEEP)
        ELSE numSteps

\* time.Duration(sleepAmount*1000) * time.Millisecond: sleepAmount*1000 is the
\* step time in milliseconds, ms / numSteps, and the conversion to Duration
\* drops its fraction.
DragSleep(ms, numSteps) == Dur(TruncDiv(ms, numSteps), 0)

\* The loop of DragTo: at step i, 0 <= i < numSteps, a cursor set and a sleep.
DragLoop(x1, y1, x2, y2, ms, numSteps) ==
    [k \in 1..(2 * numSteps) |->
        LET i == (k - 1) \div 2
        IN  IF k % 2 = 1
            THEN CursorEv(TweenInt(x1, x2, i, numSteps),
                          TweenInt(y1, y2, i, numSteps))
            ELSE SleepEv(DragSleep(ms, numSteps))]

\* The end of DragTo that releases the button where the loop left the cursor.
DragFinish_noSet(mb, x, y) ==
    LET up == MouseUp(mb, x, y)
    IN  IF up.err # Nil
        THEN Fail(up.ev, "failed to release mouse button")
        ELSE Ok(up.ev)

\* The end of DragTo: the cursor is set to the target and the button released.
DragFinish(mb, x, y) ==
    LET up == MouseUp(mb, x, y)
    IN  IF up.err # Nil
        THEN Fail(SetCursorPosition(x, y) \o up.ev, "failed to release mouse button")
        ELSE Ok(SetCursorPosition(x, y) \o up.ev)

\* DragTo pressing the button before it looks at the cursor position.
DragTo_pressesFirst(x, y, ms, mb) ==
    IF mb # MouseLeftButton /\ mb # MouseRightButton /\ mb # MouseMiddleButton
    THEN Fail(<<>>, "mouse button must be one of MouseLeftButton, MouseRightButton, or Middle")
    ELSE LET startPos == Position
             down == MouseDown(mb, startPos.X, startPos.Y)
         IN  IF startPos.X = x /\ startPos.Y = y THEN Ok(down.ev)
             ELSE LET fin == DragFinish(mb, x, y)
                  IN  [ev |-> down.ev \o fin.ev, err |-> fin.err]

\* duration is given in milliseconds.
DragTo(x, y, ms, mb) ==
    IF mb # MouseLeftButton /\ mb # MouseRightButton /\ mb # MouseMiddleButton
    THEN Fail(<<>>, "mouse button must be one of MouseLeftButton, MouseRightButton, or Middle")
    ELSE LET startPos == Position
             down == MouseDown(mb, startPos.X, startPos.Y)
         IN  IF startPos.X = x /\ startPos.Y = y THEN Ok(<<>>)
             ELSE IF down.err # Nil
             THEN Fail(down.ev, "failed to press mouse button down")
             ELSE IF ms <= MINIMUM_DURATION
             THEN LET up == MouseUp(mb, x, y)
                  IN  IF up.err # Nil
                      THEN Fail(down.ev \o SetCursorPosition(x, y) \o up.ev,
                                "failed to release mouse button")
                      ELSE Ok(down.ev \o SetCursorPosition(x, y) \o up.ev)
             ELSE LET numSteps == DragNumSteps(ms)
                      steps == DragLoop(startPos.X, startPos.Y, x, y, ms, numSteps)
                      fin == DragFinish(mb, x, y)
                  IN  [ev |-> down.ev \o steps \o fin.ev, err |-> fin.err]

----------------------------------------------------------------------------
(* Screen metrics and capture engine *)

\* image.Rect(x0, y0, x1, y1): the rectangle <<Min.X, Min.Y, Max.X, Max.Y>>,
\* with the coordinates of each axis put in order.
Rect(x0, y0, x1, y1) == <<Min(x0, x1), Min(y0, y1), Max(x0, x1), Max(y0, y1)>>
Dx(r) == r[3] - r[1]
Dy(r) == r[4] - r[2]

\* image.Rectangle{}
ZeroRect == <<0, 0, 0, 0>>

\* The monitors EnumDisplayMonitors reports: the primary display, whose
\* origin is (0, 0), then the others.
EnumDisplayMonitors == <<(<<0, 0, screen[1], screen[2]>>)>> \o monitors

GetDisplayBounds(displayIndex) ==
    LET rects == EnumDisplayMonitors
    IN  IF displayIndex < 0 \/ displayIndex >= Len(rects) THEN ZeroRect
        ELSE LET r == rects[displayIndex + 1]
             IN  Rect(r[1], r[2], r[3], r[4])

\* The largest int of a build whose int has 32 bits.
MaxInt32 == 2147483647

\* image.NewRGBA panics when 4 * Dx * Dy does not fit an int.  On a build with
\* a 32-bit int that is the case for the rectangles told here; on a build
\* with a 64-bit int for none of the rectangles used.
MayPanic(r) == Dx(r) > 0 /\ Dy(r) > 0 /\ Dx(r) > (MaxInt32 \div 4) \div Dy(r)

\* createImage turns a panic of image.NewRGBA into an error; panics tells
\* whether image.NewRGBA panicked.
createImage(r, panics) ==
    IF panics THEN Fail(<<>>, "Cannot create image.RGBA") ELSE Ok(<<>>)

\* A pixel buffer of the capture engine holds 4 bytes for each pixel.  Of a
\* buffer the model keeps the number of pixels and the bytes of its first
\* MaxPixels pixels.
Kept(pixels) == 4 * Min(Max(pixels, 0), MaxPixels)

\* The nil image, and the *image.RGBA of a rectangle: len(Pix) = 4 * Dx * Dy.
NilImage == [pixels |-> 0, pix |-> <<>>]
NewRGBA(r, bytes) == [pixels |-> Dx(r) * Dy(r), pix |-> bytes]

\* What is on the screen or in the window, as BGRA pixels in top-down
\* row-major order: a palette, repeated.  The fourth byte of a pixel is
\* whatever GDI left there.
Palettes ==
    {<<(<<10, 20, 30, 0>>), (<<200, 100, 50, 255>>), (<<1, 2, 3, 77>>)>>,
     <<(<<255, 255, 255, 255>>)>>,
     <<(<<0, 0, 255, 0>>), (<<0, 255, 0, 128>>)>>}

\* The memory GetDIBits or PrintWindow filled for a bitmap of the given
\* number of pixels showing palette c.
Memory(c, pixels) ==
    [k \in 1..Kept(pixels) |-> c[(((k - 1) \div 4) % Len(c)) + 1][((k - 1) % 4) + 1]]

\* The pixel loop copying the bytes of every pixel as they are.
PixelLoop_copies(buf, pixels) == [k \in 1..Kept(pixels) |-> buf[k]]

\* The pixel loop of Capture and CaptureWindow:
\*   pix[dst+0], pix[dst+1], pix[dst+2], pix[dst+3] =
\*       buf[dst+2], buf[dst+1], buf[dst+0], 0xFF
\* for dst = 0, 4, .. below byteCount = 4 * pixels (indexes from 1 here).
PixelLoop(buf, pixels) ==
    [k \in 1..Kept(pixels) |->
        LET dst == 4 * ((k - 1) \div 4)
        IN  CASE (k - 1) % 4 = 0 -> buf[dst + 3]
              [] (k - 1) % 4 = 1 -> buf[dst + 2]
              [] (k - 1) % 4 = 2 -> buf[dst + 1]
              [] OTHER -> 255]

\* What a function that has made the calls made, and deferred the calls
\* deferred in that order, does when it returns e: the deferred calls run
\* last deferred first.
Exit(made, deferred, e) ==
    [ev |-> made \o Reverse(deferred), err |-> e, buf |-> <<>>, img |-> NilImage]

\* The same for a function that returns the image im read from the memory mem.
ExitImage(made, deferred, mem, im) ==
    [ev |-> made \o Reverse(deferred), err |-> Nil, buf |-> mem, img |-> im]

\* What the native calls of Capture may return: "ok" when every call
\* succeeds, else the name of the first call whose result makes Capture
\* return an error.  GlobalAlloc returns a handle and an error code, and
\* Capture fails when the handle is zero ("GlobalAlloc") and also when the
\* handle is not zero but the error code is not ERROR_SUCCESS
\* ("GlobalAlloc:LastError").
CaptureOutcomes ==
    {"ok", "NewRGBA", "GetDC", "CreateCompatibleDC", "CreateCompatibleBitmap",
     "BitBlt", "GlobalAlloc", "GlobalAlloc:LastError", "GetDIBits"}

Capture(x, y, width, height, o, c) ==
    LET r == Rect(0, 0, width, height)
        pixels == width * height
        buf == Memory(c, pixels)
        img == createImage(r, o = "NewRGBA")
        c1 == Native("GetDesktopWindow") \o <<NativeEv("GetDC", o # "GetDC", FALSE)>>
        d1 == Native("ReleaseDC")
        c2 == c1 \o <<NativeEv("CreateCompatibleDC", o # "CreateCompatibleDC", FALSE)>>
        d2 == d1 \o Native("DeleteDC")
        c3 == c2 \o <<NativeEv("CreateCompatibleBitmap",
                               o # "CreateCompatibleBitmap", FALSE)>>
        d3 == d2 \o Native("DeleteObject")
        c4 == c3 \o Native("SelectObject")
        d4 == d3 \o Native("SelectObject:old")
        c5 == c4 \o <<NativeEv("BitBlt", o # "BitBlt", FALSE)>>
        c6 == c5 \o <<NativeEv("GlobalAlloc", o # "GlobalAlloc",
                               o = "GlobalAlloc:LastError")>>
        d6 == d4 \o Native("GlobalFree")
        c7 == c6 \o Native("GlobalLock")
        d7 == d6 \o Native("GlobalUnlock")
        c8 == c7 \o <<NativeEv("GetDIBits", o # "GetDIBits", FALSE)>>
    IN  IF img.err # Nil THEN Exit(<<>>, <<>>, img.err)
        ELSE IF o = "GetDC" THEN Exit(c1, <<>>, "GetDC failed")
        ELSE IF o = "CreateCompatibleDC"
        THEN Exit(c2, d1, "CreateCompatibleDC failed")
        ELSE IF o = "CreateCompatibleBitmap"
        THEN Exit(c3, d2, "CreateCompatibleBitmap failed")
        ELSE IF o = "BitBlt"
        THEN Exit(c5 \o Native("GetLastError"), d4, "BitBlt failed")
        ELSE IF o \in {"GlobalAlloc", "GlobalAlloc:LastError"}
        THEN Exit(c6, d4, "GlobalAlloc failed")
        ELSE IF o = "GetDIBits" THEN Exit(c8, d7, "GetDIBits failed")
        ELSE ExitImage(c8, d7, buf, NewRGBA(r, PixelLoop(buf, pixels)))

\* What the native calls of CaptureWindow may return.  GetWindowRect and
\* CreateDIBSection return a value and an error code; "PrintWindow" is the
\* outcome where every call succeeds but PrintWindow, which returns zero.
CaptureWindowOutcomes ==
    {"ok", "PrintWindow", "GetWindowRect", "GetWindowRect:LastError",
     "GetWindowDC", "CreateCompatibleDC", "CreateDIBSection",
     "CreateDIBSection:LastError"}

\* The bits of the DIB section of CaptureWindow after the calls made:
\* CreateDIBSection leaves them zero, and PrintWindow, or the WM_PRINT
\* message sent with SendMessage, draws the window c into them.
Blank == <<(<<0, 0, 0, 0>>)>>
BitsAfter(made, c, pixels) ==
    IF \E i \in 1..Len(made) : made[i].flags \cap {"PrintWindow", "SendMessage"} # {}
    THEN Memory(c, pixels)
    ELSE Memory(Blank, pixels)

\* win32.PrintWindow(hwnd, hdcMem, PW_RENDERFULLCONTENT); got tells that it
\* returned a value other than zero.
PrintWindow(got) ==
    [NativeEv("PrintWindow", got, FALSE)
        EXCEPT !.flags = {"PrintWindow", "PW_RENDERFULLCONTENT"}]

\* win32.SendMessage(hwnd, WM_PRINT, hdcMem, flags)
SendPrint ==
    [NativeEv("SendMessage", TRUE, FALSE)
        EXCEPT !.flags = {"SendMessage", "WM_PRINT", "PRF_ERASEBKGND",
                          "PRF_CHILDREN", "PRF_CLIENT", "PRF_NONCLIENT"}]

\* CaptureWindow sending WM_PRINT whatever PrintWindow returned.
CaptureWindow_alwaysSends(w, h, o, c) ==
    LET pixels == w * h
        c0 == <<NativeEv("GetWindowRect", o # "GetWindowRect",
                         o = "GetWindowRect:LastError")>>
        c1 == c0 \o <<NativeEv("GetWindowDC", o # "GetWindowDC", FALSE)>>
        d1 == Native("ReleaseDC")
        c2 == c1 \o <<NativeEv("CreateCompatibleDC", o # "CreateCompatibleDC", FALSE)>>
        d2 == d1 \o Native("DeleteDC")
        c3 == c2 \o <<NativeEv("CreateDIBSection", o # "CreateDIBSection",
                               o = "CreateDIBSection:LastError")>>
        d3 == d2 \o Native("DeleteObject")
        c4 == c3 \o Native("SelectObject")
        d4 == d3 \o Native("SelectObject:old")
        c5 == c4 \o <<PrintWindow(o # "PrintWindow")>>
        c6 == c5 \o <<SendPrint>>
        buf == BitsAfter(c6, c, pixels)
    IN  IF o \in {"GetWindowRect", "GetWindowRect:LastError"}
        THEN Exit(c0, <<>>, "GetWindowRect failed")
        ELSE IF o = "GetWindowDC" THEN Exit(c1, <<>>, "GetWindowDC failed")
        ELSE IF o = "CreateCompatibleDC"
        THEN Exit(c2, d1, "CreateCompatibleDC failed")
        ELSE IF o \in {"CreateDIBSection", "CreateDIBSection:LastError"}
        THEN Exit(c3, d2, "CreateDIBSection failed")
        ELSE ExitImage(c6, d4, buf,
                       NewRGBA(Rect(0, 0, w, h), PixelLoop(buf, pixels)))

CaptureWindow(w, h, o, c) ==
    LET pixels == w * h
        c0 == <<NativeEv("GetWindowRect", o # "GetWindowRect",
                         o = "GetWindowRect:LastError")>>
        c1 == c0 \o <<NativeEv("GetWindowDC", o # "GetWindowDC", FALSE)>>
        d1 == Native("ReleaseDC")
        c2 == c1 \o <<NativeEv("CreateCompatibleDC", o # "CreateCompatibleDC", FALSE)>>
        d2 == d1 \o Native("DeleteDC")
        c3 == c2 \o <<NativeEv("CreateDIBSection", o # "CreateDIBSection",
                               o = "CreateDIBSection:LastError")>>
        d3 == d2 \o Native("DeleteObject")
        c4 == c3 \o Native("SelectObject")
        d4 == d3 \o Native("SelectObject:old")
        c5 == c4 \o <<PrintWindow(o # "PrintWindow")>>
        c6 == IF o = "PrintWindow" THEN c5 \o <<SendPrint>> ELSE c5
        buf == BitsAfter(c6, c, pixels)
    IN  IF o \in {"GetWindowRect", "GetWindowRect:LastError"}
        THEN Exit(c0, <<>>, "GetWindowRect failed")
        ELSE IF o = "GetWindowDC" THEN Exit(c1, <<>>, "GetWindowDC failed")
        ELSE IF o = "CreateCompatibleDC"
        THEN Exit(c2, d1, "CreateCompatibleDC failed")
        ELSE IF o \in {"CreateDIBSection", "CreateDIBSection:LastError"}
        THEN Exit(c3, d2, "CreateDIBSection failed")
        ELSE ExitImage(c6, d4, buf,
                       NewRGBA(Rect(0, 0, w, h), PixelLoop(buf, pixels)))

\* ScreenShot handing every region to Capture.
ScreenShot_noCheck(x, y, width, height, o, c) ==
    Capture(x, y, width, height, o, c)

ScreenShot(x, y, width, height, o, c) ==
    IF ~OnScreen(x, y) \/ ~OnScreen(x + width - 1, y + height - 1)
    THEN Exit(<<>>, <<>>, "coordinates are off-screen")
    ELSE Capture(x, y, width, height, o, c)

CaptureRect(r, o, c) == Capture(r[1], r[2], Dx(r), Dy(r), o, c)

CaptureDisplay(displayIndex, o, c) ==
    CaptureRect(GetDisplayBounds(displayIndex), o, c)

CapturePrimaryDisplay(o, c) ==
    LET dim == GetScreenDimensions
    IN  Capture(0, 0, dim.X, dim.Y, o, c)

----------------------------------------------------------------------------
(* The state machine *)

NoHandle == [keys |-> <<>>, live |-> FALSE]

KeyLists == SeqsUpTo(Keys, MaxKeys)
Texts == SeqsUpTo(Chars, MaxText)

\* Ordinals at which a sendKeyboardEvent call of an operation making n of
\* them may report an error.
FaultAt(n) == IF faulty THEN 0..n ELSE {0}

InitCommon ==
    /\ swapped \in BOOLEAN
    /\ screen \in Screens
    /\ vkTable \in Layouts
    /\ hc = NoHandle
    /\ hcArgs = <<>>
    /\ hcLog = <<>>
    /\ hcReleases = 0
    /\ events = <<>>
    /\ last = Call("idle")

\* A single display with the cursor in its top left corner: the calls made
\* under Spec and SpecFault neither read nor move the cursor and enumerate
\* no monitor.
InitSingleDisplay == cursor = <<0, 0>> /\ monitors = <<>>

Init == InitCommon /\ faulty = FALSE /\ InitSingleDisplay

\* The native layer may report an error from keybd_event.
InitFault == InitCommon /\ faulty = TRUE /\ InitSingleDisplay

env == <<swapped, screen, vkTable, faulty>>
handle == <<hc, hcArgs, hcLog, hcReleases>>
desktop == <<cursor, monitors>>

\* The caller is one thread: it makes a call, looks at what the call did and
\* returned (events, last), and goes on to the next call (Return).  It holds
\* at most one HoldContext and makes no other call between Hold and the
\* Release calls on it.
Idle == ~hc.live /\ last.op = "idle"

\* A call that touches no HoldContext.
Stateless(r, rec) ==
    /\ Idle
    /\ events' = r.ev
    /\ last' = [rec EXCEPT !.err = r.err, !.swap = swapped, !.dim = screen,
                        !.layout = vkTable]
    /\ UNCHANGED <<env, handle, desktop>>

(* Environment: the user changes a system setting between two calls. *)

BetweenCalls == last.op = "idle" \/ hc.live

SetSwap ==
    /\ BetweenCalls
    /\ swapped' = ~swapped
    /\ UNCHANGED <<screen, vkTable, faulty, handle, events, last, desktop>>

SetScreen ==
    /\ BetweenCalls
    /\ \E sc \in Screens \ {screen} : screen' = sc
    /\ UNCHANGED <<swapped, vkTable, faulty, handle, events, last, desktop>>

SetLayout ==
    /\ BetweenCalls
    /\ \E l \in Layouts \ {vkTable} : vkTable' = l
    /\ UNCHANGED <<swapped, screen, faulty, handle, events, last, desktop>>

(* Keyboard *)

DoVKeyDown == Idle /\ \E k \in Keys :
    Stateless(VKeyDown(k, FALSE), [Call("VKeyDown") EXCEPT !.keys = <<k>>])

DoVKeyUp == Idle /\ \E k \in Keys :
    Stateless(VKeyUp(k, FALSE), [Call("VKeyUp") EXCEPT !.keys = <<k>>])

DoKeyDown == Idle /\ \E c \in Chars :
    Stateless(KeyDown(c), [Call("KeyDown") EXCEPT !.text = <<c>>])

DoKeyUp == Idle /\ \E c \in Chars :
    Stateless(KeyUp(c), [Call("KeyUp") EXCEPT !.text = <<c>>])

DoIsShiftCharacter == Idle /\ \E c \in ShiftProbes :
    Stateless(Ok(<<>>),
              [Call("isShiftCharacter") EXCEPT !.text = <<c>>,
                                               !.res = isShiftCharacter(c)])

DoPress == Idle /\ \E t \in Texts, n \in 0..MaxPresses, iv \in Intervals :
    Stateless(Press(t, n, iv),
              [Call("Press") EXCEPT !.text = t, !.n = n, !.interval = iv])

DoVPress == Idle /\ \E ks \in KeyLists, n \in 0..MaxPresses, iv \in Intervals :
    Stateless(VPress(n, iv, ks),
              [Call("VPress") EXCEPT !.keys = ks, !.n = n, !.interval = iv])

DoTypeWrite == Idle /\ \E t \in Texts, iv \in Intervals :
    Stateless(TypeWrite(t, iv),
              [Call("TypeWrite") EXCEPT !.text = t, !.interval = iv])

DoWrite == Idle /\ \E t \in Texts, iv \in Intervals :
    Stateless(Write(t, iv),
              [Call("Write") EXCEPT !.text = t, !.interval = iv])

DoHotKey == Idle /\ \E ks \in KeyLists, iv \in Intervals :
    LET r == HotKey(iv, ks)
    IN  Stateless(r, [Call("HotKey") EXCEPT !.keys = ks, !.interval = iv,
                                            !.keysAfter = r.keys])

\* The caller passes the slice of the previous HotKey call again.
DoHotKeyAgain ==
    /\ last.op = "HotKey"
    /\ last.err = Nil
    /\ LET r == HotKey(last.interval, last.keysAfter)
       IN  /\ events' = r.ev
           /\ last' = [Call("HotKeyAgain") EXCEPT !.keys = last.keysAfter,
                                                  !.interval = last.interval,
                                                  !.keysAfter = r.keys,
                                                  !.err = r.err, !.swap = swapped, !.dim = screen,
                        !.layout = vkTable]
           /\ UNCHANGED <<env, handle, desktop>>

DoHold == Idle /\ \E ks \in KeyLists : \E f \in FaultAt(Len(ks)) :
    LET r == Hold(ks, f)
    IN  /\ Idle
        /\ hc' = [keys |-> r.keys, live |-> r.live]
        /\ hcArgs' = IF r.live THEN ks ELSE <<>>
        /\ hcLog' = IF r.live THEN r.ev ELSE <<>>
        /\ hcReleases' = 0
        /\ events' = r.ev
        /\ last' = [Call("Hold") EXCEPT !.keys = ks, !.err = r.err, !.f = f,
                                        !.swap = swapped, !.dim = screen,
                        !.layout = vkTable]
        /\ UNCHANGED <<env, desktop>>

DoRelease == \E f \in FaultAt(Len(hc.keys)) :
    LET r == Release(hc.keys, f)
    IN  /\ hc.live
        /\ hcReleases < MaxReleases
        /\ hc' = [hc EXCEPT !.keys = r.keys]
        /\ hcLog' = hcLog \o r.ev
        /\ hcReleases' = hcReleases + 1
        /\ events' = r.ev
        /\ last' = [Call("Release") EXCEPT !.keys = hc.keys, !.keysAfter = r.keys,
                                           !.err = r.err, !.f = f, !.swap = swapped, !.dim = screen,
                        !.layout = vkTable]
        /\ UNCHANGED <<env, hcArgs, desktop>>

\* The caller lets go of the HoldContext.
DropHandle ==
    /\ hc.live
    /\ hc' = NoHandle
    /\ hcArgs' = <<>>
    /\ hcLog' = <<>>
    /\ hcReleases' = 0
    /\ UNCHANGED <<env, events, last, desktop>>

\* The caller is done with the result of the last call.
Return ==
    /\ ~hc.live
    /\ last.op # "idle"
    /\ events' = <<>>
    /\ last' = Call("idle")
    /\ UNCHANGED <<env, handle, desktop>>

(* Mouse *)

DoNormalize == Idle /\ \E mb \in Buttons :
    LET n == normalizeMouseButton(mb)
    IN  Stateless([ev |-> <<>>, err |-> n.err],
                  [Call("normalizeMouseButton") EXCEPT !.mb = mb, !.res = n.mb])

DoMouseDown == Idle /\ \E mb \in Buttons, p \in Points :
    Stateless(MouseDown(mb, p[1], p[2]),
              [Call("MouseDown") EXCEPT !.mb = mb, !.px = p[1], !.py = p[2]])

DoMouseUp == Idle /\ \E mb \in Buttons, p \in Points :
    Stateless(MouseUp(mb, p[1], p[2]),
              [Call("MouseUp") EXCEPT !.mb = mb, !.px = p[1], !.py = p[2]])

DoClick == Idle /\ \E mb \in Buttons, p \in Points :
    Stateless(Click(mb, p[1], p[2]),
              [Call("Click") EXCEPT !.mb = mb, !.px = p[1], !.py = p[2], !.n = 1])

DoDoubleClick == Idle /\ \E mb \in Buttons, p \in Points :
    Stateless(DoubleClick(mb, p[1], p[2]),
              [Call("DoubleClick") EXCEPT !.mb = mb, !.px = p[1], !.py = p[2], !.n = 2])

DoTripleClick == Idle /\ \E mb \in Buttons, p \in Points :
    Stateless(TripleClick(mb, p[1], p[2]),
              [Call("TripleClick") EXCEPT !.mb = mb, !.px = p[1], !.py = p[2], !.n = 3])

DoLeftClick == Idle /\ \E p \in Points :
    Stateless(LeftClick(p[1], p[2]),
              [Call("LeftClick") EXCEPT !.mb = MouseLeftButton, !.px = p[1], !.py = p[2], !.n = 1])

DoRightClick == Idle /\ \E p \in Points :
    Stateless(RightClick(p[1], p[2]),
              [Call("RightClick") EXCEPT !.mb = MouseRightButton, !.px = p[1], !.py = p[2], !.n = 1])

DoMiddleClick == Idle /\ \E p \in Points :
    Stateless(MiddleClick(p[1], p[2]),
              [Call("MiddleClick") EXCEPT !.mb = MouseMiddleButton, !.px = p[1], !.py = p[2], !.n = 1])

DoX1Click == Idle /\ \E p \in Points :
    Stateless(X1Click(p[1], p[2]),
              [Call("X1Click") EXCEPT !.mb = MouseX1Button, !.px = p[1], !.py = p[2], !.n = 1])

DoX2Click == Idle /\ \E p \in Points :
    Stateless(X2Click(p[1], p[2]),
              [Call("X2Click") EXCEPT !.mb = MouseX2Button, !.px = p[1], !.py = p[2], !.n = 1])

DoPrimaryClick == Idle /\ \E p \in Points :
    Stateless(PrimaryClick(p[1], p[2]),
              [Call("PrimaryClick") EXCEPT !.mb = MousePrimaryButton, !.px = p[1], !.py = p[2], !.n = 1])

DoSecondaryClick == Idle /\ \E p \in Points :
    Stateless(SecondaryClick(p[1], p[2]),
              [Call("SecondaryClick") EXCEPT !.mb = MouseSecondaryButton, !.px = p[1], !.py = p[2], !.n = 1])

DoScroll == Idle /\ \E p \in ScrollPoints, a \in Notches :
    Stateless(Scroll(p[1], p[2], a),
              [Call("Scroll") EXCEPT !.px = p[1], !.py = p[2], !.n = a])

DoScrollRaw == Idle /\ \E p \in ScrollPoints, a \in Notches :
    Stateless(ScrollRaw(p[1], p[2], a),
              [Call("ScrollRaw") EXCEPT !.px = p[1], !.py = p[2], !.n = a])

DoHorizontalScroll == Idle /\ \E p \in ScrollPoints, a \in Notches :
    Stateless(HorizontalScroll(p[1], p[2], a),
              [Call("HorizontalScroll") EXCEPT !.px = p[1], !.py = p[2], !.n = a])

DoVerticalScroll == Idle /\ \E p \in ScrollPoints, a \in Notches :
    Stateless(VerticalScroll(p[1], p[2], a),
              [Call("VerticalScroll") EXCEPT !.px = p[1], !.py = p[2], !.n = a])

(* The desktop: cursor and monitors *)

\* Where the last SetCursorPos call of ev, looked for from index i down, put
\* the cursor; pos if there is none.
RECURSIVE CursorAfter(_, _, _)
CursorAfter(pos, ev, i) ==
    IF i = 0 THEN pos
    ELSE IF ev[i].kind = "cursor" THEN <<ev[i].x, ev[i].y>>
    ELSE CursorAfter(pos, ev, i - 1)

\* A call that reads or sets the cursor.  The caller makes it with the
\* cursor at one of CursorPoints: when a call has left the cursor elsewhere,
\* the user moves the mouse before the next one.
Pointer(r, rec) ==
    /\ Idle
    /\ cursor \in CursorPoints
    /\ events' = r.ev
    /\ last' = [rec EXCEPT !.err = r.err, !.swap = swapped, !.dim = screen,
                        !.layout = vkTable, !.start = cursor]
    /\ cursor' = CursorAfter(cursor, r.ev, Len(r.ev))
    /\ UNCHANGED <<env, handle, monitors>>

\* The user moves the mouse between two calls.
UserMovesCursor ==
    /\ BetweenCalls
    /\ \E p \in CursorPoints \ {cursor} :
          /\ OnDesktop(p, screen, monitors)
          /\ cursor' = p
    /\ UNCHANGED <<env, handle, events, last, monitors>>

\* A monitor is plugged in or removed between two calls.
SetMonitors ==
    /\ BetweenCalls
    /\ \E m \in MonitorLayouts \ {monitors} :
          /\ OnDesktop(cursor, screen, m)
          /\ monitors' = m
    /\ UNCHANGED <<env, handle, events, last, cursor>>

DoSetCursorPosition == Idle /\ \E p \in DragTargets :
    /\ OnDesktop(p, screen, monitors)
    /\ Pointer(Ok(SetCursorPosition(p[1], p[2])),
               [Call("SetCursorPosition") EXCEPT !.px = p[1], !.py = p[2]])

DoMove == Idle /\ \E o \in MoveOffsets :
    Pointer(Move(o[1], o[2]),
            [Call("Move") EXCEPT !.px = o[1], !.py = o[2]])

DoDragTo == Idle /\ \E p \in DragTargets, ms \in DragDurations, mb \in Buttons :
    /\ OnDesktop(p, screen, monitors)
    /\ Pointer(DragTo(p[1], p[2], ms, mb),
               [Call("DragTo") EXCEPT !.px = p[1], !.py = p[2], !.mb = mb,
                                      !.duration = ms])

(* Capture *)

\* The outcomes the native calls of Capture can have for a region of the
\* given size.  With a negative byteCount (width * height * 4) GlobalAlloc is
\* asked for more memory than the address space holds and fails.
OutcomesFor(width, height) ==
    LET sized == IF width * height < 0
                 THEN CaptureOutcomes \ {"ok", "GetDIBits"}
                 ELSE CaptureOutcomes
    IN  IF MayPanic(Rect(0, 0, width, height)) THEN sized
        ELSE sized \ {"NewRGBA"}

\* A capture call: besides what Stateless keeps, the memory it read and the
\* image it returned.
Captures(r, rec) == Stateless(r, [rec EXCEPT !.buf = r.buf, !.img = r.img])

DoCapture == Idle /\ \E g \in Regions, c \in Palettes : \E o \in OutcomesFor(g[3], g[4]) :
    Captures(Capture(g[1], g[2], g[3], g[4], o, c),
             [Call("Capture") EXCEPT !.px = g[1], !.py = g[2],
                                     !.size = <<g[3], g[4]>>, !.outcome = o])

DoScreenShot == Idle /\ \E g \in Regions, c \in Palettes : \E o \in OutcomesFor(g[3], g[4]) :
    Captures(ScreenShot(g[1], g[2], g[3], g[4], o, c),
             [Call("ScreenShot") EXCEPT !.px = g[1], !.py = g[2],
                                        !.size = <<g[3], g[4]>>, !.outcome = o])

DoCaptureWindow == Idle /\ \E z \in WindowSizes, o \in CaptureWindowOutcomes, c \in Palettes :
    Captures(CaptureWindow(z[1], z[2], o, c),
             [Call("CaptureWindow") EXCEPT !.size = z, !.outcome = o])

DoCaptureRect == Idle /\ \E g \in Regions, c \in Palettes : \E o \in OutcomesFor(g[3], g[4]) :
    LET r == Rect(g[1], g[2], g[1] + g[3], g[2] + g[4])
    IN  Captures(CaptureRect(r, o, c),
                 [Call("CaptureRect") EXCEPT !.px = r[1], !.py = r[2],
                                             !.size = <<Dx(r), Dy(r)>>,
                                             !.outcome = o])

DoCapturePrimaryDisplay == Idle /\ \E c \in Palettes : \E o \in OutcomesFor(screen[1], screen[2]) :
    Captures(CapturePrimaryDisplay(o, c),
             [Call("CapturePrimaryDisplay") EXCEPT !.size = screen, !.outcome = o])

DoGetDisplayBounds == Idle /\ \E i \in DisplayIndexes :
    Stateless(Ok(<<>>),
              [Call("GetDisplayBounds") EXCEPT !.n = i, !.res = GetDisplayBounds(i)])

DoCaptureDisplay == Idle /\ \E i \in DisplayIndexes :
    LET r == GetDisplayBounds(i)
    IN  \E c \in Palettes : \E o \in OutcomesFor(Dx(r), Dy(r)) :
            Captures(CaptureDisplay(i, o, c),
                     [Call("CaptureDisplay") EXCEPT !.n = i, !.res = r,
                                                    !.size = <<Dx(r), Dy(r)>>,
                                                    !.outcome = o])

DoOnScreen == Idle /\
    \E p \in ProbePoints \cup {<<screen[1] \div 2, screen[2] \div 2>>} :
        Stateless(Ok(<<>>),
                  [Call("OnScreen") EXCEPT !.px = p[1], !.py = p[2],
                                           !.res = OnScreen(p[1], p[2])])

Next ==
    \/ SetSwap \/ SetScreen \/ SetLayout
    \/ DoVKeyDown \/ DoVKeyUp \/ DoKeyDown \/ DoKeyUp \/ DoIsShiftCharacter
    \/ DoPress \/ DoVPress \/ DoTypeWrite \/ DoWrite
    \/ DoHotKey \/ DoHotKeyAgain
    \/ DoHold \/ DoRelease \/ DropHandle \/ Return
    \/ DoNormalize \/ DoMouseDown \/ DoMouseUp
    \/ DoClick \/ DoDoubleClick \/ DoTripleClick
    \/ DoLeftClick \/ DoRightClick \/ DoMiddleClick
    \/ DoX1Click \/ DoX2Click \/ DoPrimaryClick \/ DoSecondaryClick
    \/ DoScroll \/ DoScrollRaw \/ DoHorizontalScroll \/ DoVerticalScroll
    \/ DoCapture \/ DoScreenShot \/ DoCaptureWindow
    \/ DoCaptureRect \/ DoCapturePrimaryDisplay

Spec == Init /\ [][Next]_vars

SpecFault == InitFault /\ [][Next]_vars

\* The calls that read or set the cursor or enumerate the monitors, on a
\* desktop of one or two monitors with the cursor anywhere on it.
InitDesktop ==
    /\ swapped \in BOOLEAN
    /\ screen \in Screens
    /\ vkTable = LayoutUS
    /\ hc = NoHandle
    /\ hcArgs = <<>>
    /\ hcLog = <<>>
    /\ hcReleases = 0
    /\ events = <<>>
    /\ last = Call("idle")
    /\ faulty = FALSE
    /\ monitors \in MonitorLayouts
    /\ cursor \in {p \in CursorPoints : OnDesktop(p, screen, monitors)}

NextDesktop ==
    \/ SetSwap \/ SetScreen
    \/ UserMovesCursor \/ SetMonitors
    \/ DoSetCursorPosition \/ DoMove \/ DoDragTo
    \/ DoOnScreen \/ DoGetDisplayBounds \/ DoCaptureDisplay
    \/ Return

SpecDesktop == InitDesktop /\ [][NextDesktop]_vars

\* The resolution of the primary display is changed between two calls, to
\* any size.
SetResolution ==
    /\ BetweenCalls
    /\ \E sc \in (Screens \cup SmallScreens) \ {screen} : screen' = sc
    /\ UNCHANGED <<swapped, vkTable, faulty, handle, events, last, desktop>>

\* The calls that emit mouse events, on a primary display of any size.
InitAnyDisplay ==
    /\ swapped \in BOOLEAN
    /\ screen \in Screens \cup SmallScreens
    /\ vkTable = LayoutUS
    /\ hc = NoHandle
    /\ hcArgs = <<>>
    /\ hcLog = <<>>
    /\ hcReleases = 0
    /\ events = <<>>
    /\ last = Call("idle")
    /\ faulty = FALSE
    /\ InitSingleDisplay

NextAnyDisplay ==
    \/ SetSwap \/ SetResolution
    \/ DoMouseDown \/ DoMouseUp
    \/ DoClick \/ DoDoubleClick \/ DoTripleClick
    \/ DoScroll \/ DoScrollRaw \/ DoHorizontalScroll
    \/ Return

SpecAnyDisplay == InitAnyDisplay /\ [][NextAnyDisplay]_vars

----------------------------------------------------------------------------
(* Properties *)

Downs(ks) == [i \in 1..Len(ks) |-> KeyEv(ks[i], FALSE)]
Ups(ks) == [i \in 1..Len(ks) |-> KeyEv(ks[i], TRUE)]

\* The keys that are down after the key events of ev, from all keys up.
RECURSIVE KeysDown(_)
KeysDown(ev) ==
    IF ev = <<>> THEN {}
    ELSE LET e == ev[Len(ev)]
             before == KeysDown(SubSeq(ev, 1, Len(ev) - 1))
         IN  IF e.kind # "key" THEN before
             ELSE IF e.up THEN before \ {e.vk} ELSE before \cup {e.vk}

IsSleep(e) == e.kind = "sleep"
IsKey(e) == e.kind = "key"
NotSleep(e) == e.kind # "sleep"

\* time.Sleep returns at once for a duration that is not positive.
EffectiveEvent(e) == ~(e.kind = "sleep" /\ ~DurPositive(e.d))
Effective(ev) == SelectSeq(ev, EffectiveEvent)

AllDistinct(ks) == \A i, j \in 1..Len(ks) : i # j => ks[i] # ks[j]

C1_FailedHoldReleasesAll ==
    (last.op = "Hold" /\ last.err # Nil) =>
        LET pressed == SubSeq(last.keys, 1, last.f - 1)
        IN  /\ events = Downs(pressed) \o Ups(pressed)
            /\ ~hc.live
            /\ KeysDown(events) = {}

C1_Reached ==
    /\ last.op = "Hold" /\ last.err # Nil /\ last.f = 3
    /\ last.keys[1] # last.keys[2]

\* C2: Hold(k1..kn) then Release emits the key-downs k1..kn in order and
\* then the key-ups kn..k1, leaves every key up and empties the held set; a
\* second Release on the handle emits nothing and returns no error.
C2_HoldThenRelease ==
    /\ (hc.live /\ hcReleases = 0) =>
          /\ hcLog = Downs(hcArgs)
          /\ hc.keys = hcArgs
          /\ last.err = Nil
    /\ (hc.live /\ hcReleases >= 1) =>
          /\ hcLog = Downs(hcArgs) \o Ups(Reverse(hcArgs))
          /\ KeysDown(hcLog) = {}
          /\ hc.keys = <<>>
          /\ last.err = Nil
    /\ (hc.live /\ hcReleases >= 2) =>
          /\ last.op = "Release"
          /\ events = <<>>
          /\ last.err = Nil

C2_Reached ==
    /\ hc.live /\ hcReleases = 2
    /\ hcArgs = <<VK_C, VK_CONTROL, VK_C>>
    /\ Len(hcLog) = 6

C3_FailedReleaseKeepsAllKeys ==
    (hc.live /\ last.op = "Release" /\ last.err # Nil) =>
        LET released == SubSeq(Reverse(last.keys), 1, last.f - 1)
        IN  /\ events = Ups(released)
            /\ hc.keys = last.keys

C3_Reached ==
    /\ hc.live
    /\ last.op = "Release" /\ last.err # Nil /\ last.f = 2
    /\ Len(last.keys) = 3

\* HotKey's events for keys ks: down and sleep for each key in order, then
\* up and sleep for each key in reverse order.
RECURSIVE KeyThenSleep(_, _, _)
KeyThenSleep(ks, up, iv) ==
    IF ks = <<>> THEN <<>>
    ELSE <<KeyEv(Head(ks), up), SleepEv(iv)>> \o KeyThenSleep(Tail(ks), up, iv)

\* C4: HotKey(interval, k1..kn), n >= 1, emits key-down k1..kn in order, each
\* followed by a sleep of interval, then key-up kn..k1, each followed by a
\* sleep of interval, and no key-up before the last key-down; with no keys it
\* fails and emits nothing.
C4_HotKeyOrder ==
    (last.op \in {"HotKey", "HotKeyAgain"}) =>
        IF Len(last.keys) = 0
        THEN last.err # Nil /\ events = <<>>
        ELSE /\ last.err = Nil
             /\ events = KeyThenSleep(last.keys, FALSE, last.interval)
                            \o KeyThenSleep(Reverse(last.keys), TRUE, last.interval)
             /\ \A i, j \in 1..Len(events) :
                    (IsKey(events[i]) /\ events[i].up
                        /\ IsKey(events[j]) /\ ~events[j].up) => j < i

C4_Reached ==
    /\ last.op = "HotKey"
    /\ last.keys = <<VK_CONTROL, VK_SHIFT, VK_C>>
    /\ DurPositive(last.interval)
    /\ Len(events) = 12

\* The shift bit of a VkKeyScanW result.
ScanShiftBit(scan) == (scan \div 256) % 2 = 1

\* A character requires Shift when the character rule says so or the
\* layout's mapping carries the shift bit.
RequiresShift(c, scan) == isShiftCharacter(c) \/ ScanShiftBit(scan)

\* C5: for a character that requires Shift, KeyDown emits Shift-down then the
\* main key-down and KeyUp emits Shift-up then the main key-up; for a
\* character that does not, each emits the main key event alone.
C5_ShiftBeforeMainKey ==
    (last.op \in {"KeyDown", "KeyUp"} /\ last.err = Nil) =>
        LET c    == last.text[1]
            scan == last.layout[c]
            up   == last.op = "KeyUp"
            main == KeyEv(scan % 256, up)
        IN  IF RequiresShift(c, scan)
            THEN events = <<KeyEv(VK_SHIFT, up), main>>
            ELSE events = <<main>>

\* The part of C5 that holds of the code: whenever a Shift event is emitted
\* it comes first, on KeyUp as on KeyDown, and every character that requires
\* Shift gets one.
C5_ShiftComesFirst ==
    (last.op \in {"KeyDown", "KeyUp"} /\ last.err = Nil) =>
        LET c    == last.text[1]
            scan == last.layout[c]
            up   == last.op = "KeyUp"
            main == KeyEv(scan % 256, up)
        IN  /\ events[Len(events)] = main
            /\ Len(events) \in {1, 2}
            /\ Len(events) = 2 => events[1] = KeyEv(VK_SHIFT, up)
            /\ RequiresShift(c, scan) => Len(events) = 2

C5_Reached ==
    /\ last.op = "KeyUp" /\ last.err = Nil
    /\ last.text = <<8364>>

SleepCount(ev) == Cardinality({i \in 1..Len(ev) : IsSleep(ev[i])})

\* KeyDown then KeyUp of every character of text, in order.
RECURSIVE DownUpEach(_)
DownUpEach(text) ==
    IF text = <<>> THEN <<>>
    ELSE KeyDown(Head(text)).ev \o KeyUp(Head(text)).ev \o DownUpEach(Tail(text))

\* Key-down then key-up of every virtual key of ks, in order.
RECURSIVE VDownUpEach(_)
VDownUpEach(ks) ==
    IF ks = <<>> THEN <<>>
    ELSE <<KeyEv(Head(ks), FALSE), KeyEv(Head(ks), TRUE)>> \o VDownUpEach(Tail(ks))

\* n rounds, a sleep of iv between two rounds.
RECURSIVE Rounds(_, _, _)
Rounds(round, n, iv) ==
    IF n <= 0 THEN <<>>
    ELSE IF n = 1 THEN round
    ELSE round \o <<SleepEv(iv)>> \o Rounds(round, n - 1, iv)

\* C6: a Press(text, n, interval) that succeeds has made n rounds of KeyDown
\* then KeyUp of every character, with exactly max(n-1, 0) sleeps, each of
\* interval and each between two rounds; VPress(n, interval, keys) has made
\* n rounds of key-down then key-up of every key, with the same sleeps.
C6_PressRounds ==
    /\ (last.op = "Press" /\ last.err = Nil) =>
          /\ events = Rounds(DownUpEach(last.text), last.n, last.interval)
          /\ SleepCount(events) = Max(last.n - 1, 0)
    /\ last.op = "VPress" =>
          /\ last.err = Nil
          /\ events = Rounds(VDownUpEach(last.keys), last.n, last.interval)
          /\ SleepCount(events) = Max(last.n - 1, 0)

C6_Reached ==
    /\ last.op = "Press" /\ last.err = Nil
    /\ last.n = 2 /\ last.text = <<65, 97>>
    /\ DurPositive(last.interval)
    /\ SleepCount(events) = 1

\* The number of nanoseconds of a duration.
NsCount(dur) == dur.ms * NsPerMs + dur.ns

\* The characters of text before the first one the layout has no key for.
RECURSIVE Typeable(_, _)
Typeable(text, layout) ==
    IF text = <<>> \/ layout[Head(text)] = NoVk THEN <<>>
    ELSE <<Head(text)>> \o Typeable(Tail(text), layout)

\* One Press of each character, each followed by a sleep of ms milliseconds.
RECURSIVE PressEachThenSleep(_, _)
PressEachThenSleep(text, ms) ==
    IF text = <<>> THEN <<>>
    ELSE Press(<<Head(text)>>, 1, Dur(0, 0)).ev \o <<SleepEv(Dur(ms, 0))>>
            \o PressEachThenSleep(Tail(text), ms)

\* C7: TypeWrite(text, interval) and Write press the characters in order,
\* each through Press with one repetition, and sleep interval milliseconds
\* (interval taken as a bare number) after each one, the last included; they
\* stop at the first character that fails and return its error.
C7_TypeWriteSequence ==
    (last.op \in {"TypeWrite", "Write"}) =>
        LET typed == Typeable(last.text, last.layout)
        IN  /\ (last.err = Nil) <=> (typed = last.text)
            /\ Effective(events)
                 = Effective(PressEachThenSleep(typed, NsCount(last.interval)))

C7_Reached ==
    /\ last.op = "TypeWrite" /\ last.err = Nil
    /\ last.text = <<65, 97>>
    /\ last.interval = Dur(0, 10)
    /\ IsSleep(events[Len(events)])

\* C8: Write(message, 250*time.Millisecond) sleeps 250 ms after each
\* character.
C8_WritePausesForInterval ==
    (last.op = "Write" /\ last.err = Nil /\ last.interval = Dur(250, 0)) =>
        /\ SleepCount(events) = Len(last.text)
        /\ \A i \in 1..Len(events) :
              IsSleep(events[i]) => events[i].d = Dur(250, 0)

\* What the code does with a Duration: it sleeps interval * time.Millisecond.
C8_WritePausesForIntervalTimesMillisecond ==
    (last.op = "Write" /\ last.err = Nil /\ last.interval = Dur(250, 0)) =>
        /\ SleepCount(events) = Len(last.text)
        /\ \A i \in 1..Len(events) :
              IsSleep(events[i]) => events[i].d = Dur(250000000, 0)

C8_Reached ==
    /\ last.op = "Write" /\ last.err = Nil /\ last.interval = Dur(250, 0)
    /\ Len(last.text) = 2

\* The physical button of a logical one under a given swap flag.
PhysicalButton(mb, swap) ==
    CASE mb = MousePrimaryButton ->
            IF swap THEN MouseRightButton ELSE MouseLeftButton
      [] mb = MouseSecondaryButton ->
            IF swap THEN MouseLeftButton ELSE MouseRightButton
      [] OTHER -> mb

ButtonName(mb) ==
    CASE mb = MouseLeftButton -> "LEFT"
      [] mb = MouseRightButton -> "RIGHT"
      [] mb = MouseMiddleButton -> "MIDDLE"
      [] OTHER -> "X"

DownFlag(mb) ==
    CASE mb = MouseLeftButton -> "LEFTDOWN"
      [] mb = MouseRightButton -> "RIGHTDOWN"
      [] mb = MouseMiddleButton -> "MIDDLEDOWN"
      [] OTHER -> "XDOWN"

UpFlag(mb) ==
    CASE mb = MouseLeftButton -> "LEFTUP"
      [] mb = MouseRightButton -> "RIGHTUP"
      [] mb = MouseMiddleButton -> "MIDDLEUP"
      [] OTHER -> "XUP"

\* C9: normalization returns the five physical buttons unchanged, resolves
\* Primary and Secondary by the swap flag as it is when the call is made,
\* and fails for any other value; MouseDown and MouseUp act on the button
\* so resolved.
C9_NormalizeFollowsSwapFlag ==
    /\ last.op = "normalizeMouseButton" =>
          IF last.mb \in 0..6
          THEN last.err = Nil /\ last.res = PhysicalButton(last.mb, last.swap)
          ELSE last.err # Nil
    /\ last.op \in {"MouseDown", "MouseUp"} =>
          IF last.mb \in 0..6
          THEN /\ last.err = Nil
               /\ Len(events) = 1
               /\ events[1].flags =
                    IF last.op = "MouseDown"
                    THEN {DownFlag(PhysicalButton(last.mb, last.swap))}
                    ELSE {UpFlag(PhysicalButton(last.mb, last.swap))}
          ELSE last.err # Nil /\ events = <<>>

C9_Reached ==
    /\ last.op = "MouseDown"
    /\ last.mb = MousePrimaryButton
    /\ last.swap
    /\ events[1].flags = {"RIGHTDOWN"}

ClickOps == {"Click", "DoubleClick", "TripleClick", "X1Click", "X2Click",
             "LeftClick", "RightClick", "MiddleClick"}

C10_RejectReached ==
    /\ last.op = "X1Click"
    /\ last.err # Nil

\* The nearest value to v inside lo..hi.
Clamped(v, lo, hi) == IF v < lo THEN lo ELSE IF v > hi THEN hi ELSE v

\* C11: Scroll, HorizontalScroll and ScrollRaw emit one wheel event at the
\* given point clamped into [0, width-1] x [0, height-1] of the primary
\* display (so the emitted coordinates lie in 0..65535); Scroll's event is a
\* vertical wheel event carrying notches * 120, ScrollRaw's a vertical and
\* HorizontalScroll's a horizontal wheel event carrying the amount given.
C11_ScrollClampsAndScales ==
    (last.op \in {"Scroll", "ScrollRaw", "HorizontalScroll"}) =>
        LET cx == Clamped(last.px, 0, last.dim[1] - 1)
            cy == Clamped(last.py, 0, last.dim[2] - 1)
        IN  /\ last.err = Nil
            /\ Len(events) = 1
            /\ events[1].kind = "mouse"
            /\ events[1].flags =
                  IF last.op = "HorizontalScroll" THEN {"HWHEEL"} ELSE {"WHEEL"}
            /\ events[1].x = (cx * 65535) \div (last.dim[1] - 1)
            /\ events[1].y = (cy * 65535) \div (last.dim[2] - 1)
            /\ events[1].x \in 0..65535
            /\ events[1].y \in 0..65535
            /\ events[1].data =
                  IF last.op = "Scroll" THEN last.n * 120 ELSE last.n

C11_Reached ==
    /\ last.op = "Scroll"
    /\ last.px = 2000 /\ last.py = 1200 /\ last.n = 0 - 3
    /\ events[1].x = 65535 /\ events[1].y = 65535
    /\ events[1].data = 0 - 360

C11_NegativeReached ==
    /\ last.op = "HorizontalScroll"
    /\ last.px < 0 /\ last.n = 3
    /\ events[1].x = 0
    /\ events[1].data = 3

\* C12: Move(dx, dy) made with the cursor at P makes one cursor set, to
\* P + (dx, dy) with x clamped into [0, width-1] and y into [0, height-1] of
\* the primary display; when P + (dx, dy) is inside the primary display the
\* cursor ends exactly there, and in every case it ends inside the primary
\* display.
C12_MoveClamps ==
    (last.op = "Move") =>
        LET sx == last.start[1] + last.px
            sy == last.start[2] + last.py
            w == last.dim[1]
            h == last.dim[2]
        IN  /\ last.err = Nil
            /\ events = <<CursorEv(cursor[1], cursor[2])>>
            /\ cursor = <<Clamped(sx, 0, w - 1), Clamped(sy, 0, h - 1)>>
            /\ (0 <= sx /\ sx < w /\ 0 <= sy /\ sy < h) => cursor = <<sx, sy>>
            /\ 0 <= cursor[1] /\ cursor[1] < w
            /\ 0 <= cursor[2] /\ cursor[2] < h

C12_Reached ==
    /\ last.op = "Move"
    /\ last.start = <<469, 577>> /\ last.px = 10 /\ last.py = 15
    /\ cursor = <<479, 592>>

C12_ClampedReached ==
    /\ last.op = "Move"
    /\ last.start = <<0 - 5, 20>> /\ last.px = 2000 /\ last.py = 30
    /\ last.dim = <<800, 600>>
    /\ cursor = <<799, 50>>

DragButtons == {MouseLeftButton, MouseRightButton, MouseMiddleButton}

\* C13: DragTo made with Left, Right or Middle while the cursor is already
\* at the target returns no error and makes no native call: no button-down,
\* no button-up and no cursor set; the cursor stays where it is.
C13_DragToAtTargetDoesNothing ==
    (/\ last.op = "DragTo"
     /\ last.mb \in DragButtons
     /\ last.start = <<last.px, last.py>>) =>
        /\ last.err = Nil
        /\ events = <<>>
        /\ cursor = last.start

C13_Reached ==
    /\ last.op = "DragTo"
    /\ last.mb = MouseRightButton
    /\ last.start = <<469, 577>> /\ last.px = 469 /\ last.py = 577
    /\ last.duration = 2000
    /\ last.err = Nil

IsButtonDown(e) ==
    e.kind = "mouse" /\ e.flags \cap {"LEFTDOWN", "RIGHTDOWN", "MIDDLEDOWN", "XDOWN"} # {}
IsButtonUp(e) ==
    e.kind = "mouse" /\ e.flags \cap {"LEFTUP", "RIGHTUP", "MIDDLEUP", "XUP"} # {}

\* C14: DragTo made with Left, Right or Middle while the cursor is not at
\* the target returns no error and emits, in this order: one button-down of
\* that button at the start position, then only cursor sets and sleeps, the
\* last cursor set being to exactly (x, y), then one button-up of that button
\* at (x, y).  No other button event is emitted and the cursor ends at the
\* target.  When duration <= 0.1 s the jump to the target is the only cursor
\* set.
C14_DragToPressMoveRelease ==
    (/\ last.op = "DragTo"
     /\ last.mb \in DragButtons
     /\ last.start # <<last.px, last.py>>) =>
        LET n == Len(events)
            w == last.dim[1]
            h == last.dim[2]
        IN  /\ last.err = Nil
            /\ n >= 3
            /\ events[1] = MouseEv({DownFlag(last.mb)},
                                   TruncDiv(last.start[1] * 65535, w - 1),
                                   TruncDiv(last.start[2] * 65535, h - 1), 0)
            /\ \A i \in 2..(n - 1) : events[i].kind \in {"cursor", "sleep"}
            /\ events[n - 1] = CursorEv(last.px, last.py)
            /\ events[n] = MouseEv({UpFlag(last.mb)},
                                   TruncDiv(last.px * 65535, w - 1),
                                   TruncDiv(last.py * 65535, h - 1), 0)
            /\ \A i \in 1..n : IsButtonDown(events[i]) => i = 1
            /\ \A i \in 1..n : IsButtonUp(events[i]) => i = n
            /\ cursor = <<last.px, last.py>>
            /\ (last.duration <= 100) => n = 3
            /\ (last.duration > 100) => \E i \in 2..(n - 2) : events[i].kind = "cursor"

C14_Reached ==
    /\ last.op = "DragTo"
    /\ last.mb = MouseLeftButton
    /\ last.start = <<469, 577>> /\ last.px = 500 /\ last.py = 500
    /\ last.duration = 2000
    /\ last.dim = <<1920, 1080>>
    /\ Len(events) = 2 * 1920 + 3
    /\ cursor = <<500, 500>>

C14_JumpReached ==
    /\ last.op = "DragTo"
    /\ last.mb = MouseMiddleButton
    /\ last.start = <<0, 0>> /\ last.px = 0 - 5 /\ last.py = 20
    /\ last.duration = 100
    /\ Len(events) = 3
    /\ cursor = <<0 - 5, 20>>

\* The sum of the numbers f[v], v in S.
RECURSIVE SumOver(_, _)
SumOver(S, f) ==
    IF S = {} THEN 0
    ELSE LET v == CHOOSE u \in S : TRUE
         IN  f[v] + SumOver(S \ {v}, f)

\* The time slept by the events ev, in milliseconds (whole milliseconds
\* only: DragTo sleeps no fraction of one).
SleptMs(ev) ==
    LET sleeps == {i \in 1..Len(ev) : ev[i].kind = "sleep"}
        lengths == {ev[i].d.ms : i \in sleeps}
        total == [v \in lengths |->
                    v * Cardinality({i \in sleeps : ev[i].d.ms = v})]
    IN  SumOver(lengths, total)

StepCount(ev) == Cardinality({i \in 1..Len(ev) : ev[i].kind = "sleep"})

InterpolatedDrag ==
    /\ last.op = "DragTo"
    /\ last.mb \in DragButtons
    /\ last.start # <<last.px, last.py>>
    /\ last.duration > 100

\* C15: DragTo with a duration d above 0.1 s drags over d seconds: the sleeps
\* of its steps add up to d to within one step interval d / numSteps, that
\* is, numSteps * |d - sum| <= d, whatever the size of the primary display.
C15_DragTakesDuration ==
    InterpolatedDrag =>
        LET sum == SleptMs(events)
            diff == IF sum > last.duration THEN sum - last.duration
                    ELSE last.duration - sum
        IN  StepCount(events) * diff <= last.duration

\* What the code does: each step sleeps the step interval cut down to whole
\* milliseconds, so the drag sleeps numSteps * floor(d / numSteps)
\* milliseconds, never more than d and up to numSteps - 1 milliseconds less.
C15_DragSleepsWholeMilliseconds ==
    InterpolatedDrag =>
        LET steps == StepCount(events)
        IN  /\ steps >= 1
            /\ \A i \in 1..Len(events) :
                  events[i].kind = "sleep" =>
                      events[i].d = Dur(last.duration \div steps, 0)
            /\ SleptMs(events) <= last.duration
            /\ last.duration - SleptMs(events) < steps

C15_Reached ==
    /\ InterpolatedDrag
    /\ last.duration = 2000
    /\ last.dim = <<800, 600>>
    /\ StepCount(events) = 800
    /\ SleptMs(events) = 1600

\* C16: OnScreen(x, y) is true exactly when 0 <= x < width and
\* 0 <= y < height of the primary display: true for the centre of the
\* primary display, false for every point with a negative coordinate, those
\* on a monitor left of the primary display included.
C16_OnScreenIsPrimaryDisplay ==
    (last.op = "OnScreen") =>
        LET w == last.dim[1]
            h == last.dim[2]
        IN  /\ last.res \in BOOLEAN
            /\ last.res <=> (last.px \in 0..(w - 1) /\ last.py \in 0..(h - 1))
            /\ (last.px = w \div 2 /\ last.py = h \div 2) => last.res
            /\ (last.px < 0 \/ last.py < 0) => ~last.res
            /\ events = <<>>

C16_Reached ==
    /\ last.op = "OnScreen"
    /\ last.px = 0 - 5 /\ last.py = 20
    /\ monitors = <<LeftMonitor>>
    /\ InRect(<<last.px, last.py>>, LeftMonitor)
    /\ last.res = FALSE

C16_CentreReached ==
    /\ last.op = "OnScreen"
    /\ last.dim = <<1920, 1080>>
    /\ last.px = 960 /\ last.py = 540
    /\ last.res = TRUE

\* (px, py) is a point of a primary display of size dim.
OnPrimary(px, py, dim) == 0 <= px /\ px < dim[1] /\ 0 <= py /\ py < dim[2]

IsNative(e) == e.kind = "native"

\* C17: ScreenShot(x, y, width, height) returns the off-screen error and
\* makes no native call whenever (x, y) or (x+width-1, y+height-1) is not on
\* the primary display; when both corners are on it, it does what Capture
\* does with the same arguments.
C17_ScreenShotChecksCorners ==
    (last.op = "ScreenShot") =>
        LET w == last.size[1]
            h == last.size[2]
            both == /\ OnPrimary(last.px, last.py, last.dim)
                    /\ OnPrimary(last.px + w - 1, last.py + h - 1, last.dim)
        IN  IF both
            THEN /\ \E p \in Palettes :
                        LET c == Capture(last.px, last.py, w, h, last.outcome, p)
                        IN  /\ events = c.ev
                            /\ last.err = c.err
                            /\ last.img = c.img
                 /\ last.err # "coordinates are off-screen"
                 /\ (last.outcome # "NewRGBA") =>
                        events # <<>> /\ events[1] = NativeEv("GetDesktopWindow", TRUE, FALSE)
            ELSE /\ last.err = "coordinates are off-screen"
                 /\ events = <<>>

C17_Reached ==
    /\ last.op = "ScreenShot"
    /\ last.px = 700 /\ last.py = 500 /\ last.size = <<200, 200>>
    /\ last.dim = <<800, 600>>
    /\ last.outcome = "ok"
    /\ last.err = "coordinates are off-screen"
    /\ events = <<>>

C17_DelegatedReached ==
    /\ last.op = "ScreenShot"
    /\ last.px = 700 /\ last.py = 500 /\ last.size = <<200, 200>>
    /\ last.dim = <<1920, 1080>>
    /\ last.outcome = "ok"
    /\ last.err = Nil
    /\ \E i \in 1..Len(events) : events[i].flags = {"BitBlt"}

\* C18: Capture(x, y, width, height) with width <= 0 or height <= 0 returns
\* the allocation-failure error of createImage and makes no native call.
C18_CaptureRejectsEmptyRegion ==
    (last.op = "Capture" /\ (last.size[1] <= 0 \/ last.size[2] <= 0)) =>
        /\ last.err = "Cannot create image.RGBA"
        /\ events = <<>>

\* What the code does: createImage fails only when image.NewRGBA panics,
\* which it does for no region of zero or negative width or height
\* (image.Rect puts the coordinates in order, and an empty image is an
\* image); for those regions Capture goes on to the native calls.
C18_CaptureOfEmptyRegionGoesNative ==
    (last.op = "Capture") =>
        /\ (last.err = "Cannot create image.RGBA") <=> (last.outcome = "NewRGBA")
        /\ (last.outcome = "NewRGBA") =>
              /\ events = <<>>
              /\ last.size[1] > 0 /\ last.size[2] > 0
        /\ (last.size[1] <= 0 \/ last.size[2] <= 0) =>
              /\ Len(events) >= 2
              /\ events[1] = NativeEv("GetDesktopWindow", TRUE, FALSE)
              /\ events[2].flags = {"GetDC"}

C18_Reached ==
    /\ last.op = "Capture"
    /\ last.px = 100 /\ last.py = 100 /\ last.size = <<0, 10>>
    /\ last.outcome = "ok"
    /\ last.err = Nil
    /\ \E i \in 1..Len(events) : events[i].flags = {"CreateCompatibleBitmap"}

C18_PanicReached ==
    /\ last.op = "Capture"
    /\ last.size = <<40000, 40000>>
    /\ last.err = "Cannot create image.RGBA"

\* The native calls that hand out a handle, and for each the call that
\* gives it back.
ReleaseOf ==
    [a \in {"GetDC", "GetWindowDC", "CreateCompatibleDC", "CreateCompatibleBitmap",
            "CreateDIBSection", "SelectObject", "GlobalAlloc", "GlobalLock"} |->
        CASE a \in {"GetDC", "GetWindowDC"} -> "ReleaseDC"
          [] a = "CreateCompatibleDC" -> "DeleteDC"
          [] a \in {"CreateCompatibleBitmap", "CreateDIBSection"} -> "DeleteObject"
          [] a = "SelectObject" -> "SelectObject:old"
          [] a = "GlobalAlloc" -> "GlobalFree"
          [] a = "GlobalLock" -> "GlobalUnlock"]

AcquireCalls == DOMAIN ReleaseOf
ReleaseCalls == {ReleaseOf[a] : a \in AcquireCalls}

\* The name of the native call of event e, its LastError flag left out.
CallName(e) == CHOOSE c \in e.flags : c # "LastError"

\* e is a call that returned a handle which has to be given back.
IsAcquire(e) == e.kind = "native" /\ CallName(e) \in AcquireCalls /\ e.data = 1
IsRelease(e) == e.kind = "native" /\ CallName(e) \in ReleaseCalls

\* The release calls owed for the handles acquired in ev, in the order of
\* acquisition, and the release calls made in ev, in the order made.
Owed(ev) ==
    LET a == SelectSeq(ev, IsAcquire)
    IN  [i \in 1..Len(a) |-> ReleaseOf[CallName(a[i])]]
Given(ev) ==
    LET g == SelectSeq(ev, IsRelease)
    IN  [i \in 1..Len(g) |-> CallName(g[i])]

\* C19: when Capture or CaptureWindow returns, with or without an error,
\* every handle it acquired (device contexts, bitmap, selected object,
\* memory block and its lock) has been released exactly once, after the last
\* acquisition and in the reverse of the order of acquisition: the release
\* calls made are exactly those owed, last acquired first.
C19_HandlesReleasedInReverse ==
    (last.op \in {"Capture", "CaptureWindow"}) =>
        /\ Given(events) = Reverse(Owed(events))
        /\ \A i, j \in 1..Len(events) :
              (IsRelease(events[i]) /\ IsAcquire(events[j])) => j < i

\* What the code does: the deferred releases cover every handle but one.  A
\* memory block (Capture) or bitmap (CaptureWindow) that the native call
\* returned together with an error code other than ERROR_SUCCESS makes the
\* function return an error before the release is deferred, and that handle
\* is never released.
C19_HandlesReleasedUnlessLastError ==
    (last.op \in {"Capture", "CaptureWindow"}) =>
        IF last.outcome \in {"GlobalAlloc:LastError", "CreateDIBSection:LastError"}
        THEN /\ last.err # Nil
             /\ Len(Owed(events)) = Len(Given(events)) + 1
             /\ Given(events) = Reverse(SubSeq(Owed(events), 1, Len(Given(events))))
             /\ Owed(events)[Len(Owed(events))] \in {"GlobalFree", "DeleteObject"}
        ELSE Given(events) = Reverse(Owed(events))

C19_Reached ==
    /\ last.op = "Capture"
    /\ last.outcome = "GlobalAlloc:LastError"
    /\ last.size = <<200, 200>>
    /\ last.err = "GlobalAlloc failed"
    /\ \E i \in 1..Len(events) : events[i].flags = {"GlobalAlloc", "LastError"}
    /\ \A i \in 1..Len(events) : events[i].flags # {"GlobalFree"}

C19_AllReleasedReached ==
    /\ last.op = "Capture"
    /\ last.outcome = "ok"
    /\ last.size = <<200, 200>>
    /\ Given(events) = <<"GlobalUnlock", "GlobalFree", "SelectObject:old",
                         "DeleteObject", "DeleteDC", "ReleaseDC">>

C19_WindowReached ==
    /\ last.op = "CaptureWindow"
    /\ last.outcome = "CreateDIBSection:LastError"
    /\ Given(events) = <<"DeleteDC", "ReleaseDC">>
    /\ Len(Owed(events)) = 3

\* The number of monitors: the primary display and the others.
MonitorCount == 1 + Len(monitors)

\* The rectangle of monitor i, 0 <= i < MonitorCount.
MonitorRect(i) == IF i = 0 THEN <<0, 0, screen[1], screen[2]>> ELSE monitors[i]

\* C20: CaptureDisplay(index) returns an error without handing anything to
\* Capture (no native capture call is made) when index is negative or not
\* below the number of monitors, so that the monitor rectangle is empty;
\* otherwise it does what Capture does with that monitor's rectangle.
C20_CaptureDisplayRejectsBadIndex ==
    (last.op = "CaptureDisplay") =>
        IF last.n < 0 \/ last.n >= MonitorCount
        THEN /\ last.err # Nil
             /\ events = <<>>
        ELSE LET r == MonitorRect(last.n)
             IN  \E p \in Palettes :
                    LET c == Capture(r[1], r[2], r[3] - r[1], r[4] - r[2],
                                     last.outcome, p)
                    IN  events = c.ev /\ last.err = c.err /\ last.img = c.img

\* What the code does: the rectangle GetDisplayBounds returns is handed to
\* Capture whatever it is; for an index out of range that is the empty
\* rectangle at the origin, and Capture makes its native calls for it.
C20_CaptureDisplayAlwaysDelegates ==
    (last.op = "CaptureDisplay") =>
        LET r == IF last.n < 0 \/ last.n >= MonitorCount THEN <<0, 0, 0, 0>>
                 ELSE MonitorRect(last.n)
        IN  /\ last.res = r
            /\ \E p \in Palettes :
                    LET c == Capture(r[1], r[2], r[3] - r[1], r[4] - r[2],
                                     last.outcome, p)
                    IN  events = c.ev /\ last.err = c.err /\ last.img = c.img
            /\ events[1] = NativeEv("GetDesktopWindow", TRUE, FALSE)

C20_Reached ==
    /\ last.op = "CaptureDisplay"
    /\ last.n = 2
    /\ MonitorCount = 2
    /\ last.res = <<0, 0, 0, 0>>
    /\ last.outcome = "ok"
    /\ last.err = Nil
    /\ \E i \in 1..Len(events) : events[i].flags = {"BitBlt"}

C20_SecondMonitorReached ==
    /\ last.op = "CaptureDisplay"
    /\ last.n = 1
    /\ last.res = LeftMonitor
    /\ last.err = Nil

\* Pixel i (from 0) of a pixel buffer.
PixelAt(bytes, i) ==
    <<bytes[4 * i + 1], bytes[4 * i + 2], bytes[4 * i + 3], bytes[4 * i + 4]>>

\* C21: a successful Capture or CaptureWindow of a width x height region
\* returns a buffer of exactly width*height*4 bytes in which pixel i is
\* (R, G, B, 255), taken from bytes (2, 1, 0) of pixel i of the BGRA source,
\* in the same order: the alpha byte is 255 whatever the source's fourth byte.
C21_PixelsAreOpaqueRGBA ==
    (last.op \in {"Capture", "CaptureWindow"} /\ last.err = Nil) =>
        LET pixels == last.size[1] * last.size[2]
            kept == Min(pixels, MaxPixels)
        IN  /\ last.img.pixels = pixels
            /\ Len(last.img.pix) = 4 * kept
            /\ Len(last.buf) = 4 * kept
            /\ \A i \in 0..(kept - 1) :
                    LET src == PixelAt(last.buf, i)
                    IN  PixelAt(last.img.pix, i) = <<src[3], src[2], src[1], 255>>

C21_Reached ==
    /\ last.op = "Capture" /\ last.err = Nil
    /\ last.size = <<2, 1>>
    /\ last.buf = <<10, 20, 30, 0, 200, 100, 50, 255>>
    /\ last.img = [pixels |-> 2, pix |-> <<30, 20, 10, 255, 50, 100, 200, 255>>]

C21_WindowReached ==
    /\ last.op = "CaptureWindow" /\ last.err = Nil
    /\ last.size = <<640, 480>>
    /\ last.img.pixels = 307200
    /\ PixelAt(last.buf, 2) = <<1, 2, 3, 77>>
    /\ PixelAt(last.img.pix, 2) = <<3, 2, 1, 255>>

IsShiftEvent(e) == e.kind = "key" /\ e.vk = VK_SHIFT

\* C22: KeyDown and KeyUp fail with the no-virtual-key error when the layout
\* has no mapping for the character; otherwise they emit a Shift event
\* exactly when the character requires Shift by the character rule or the
\* mapping carries the shift bit, and the main key event carries the
\* mapping's key code.  A mapping with only the ctrl or alt bits set does not
\* by itself cause a Shift event.
C22_ShiftOnlyForShiftBit ==
    (last.op \in {"KeyDown", "KeyUp"}) =>
        LET c    == last.text[1]
            scan == last.layout[c]
            up   == last.op = "KeyUp"
            shifts == {i \in 1..Len(events) : IsShiftEvent(events[i])}
        IN  IF scan = NoVk
            THEN last.err = "there is no vk code for key" /\ events = <<>>
            ELSE /\ last.err = Nil
                 /\ events # <<>>
                 /\ events[Len(events)] = KeyEv(scan % 256, up)
                 /\ (shifts # {}) <=> (isShiftCharacter(c) \/ ScanShiftBit(scan))

\* What the code does: it takes every mapping above 0x100 as one that needs
\* Shift, whichever modifier bits it carries.
C22_ShiftForAnyModifier ==
    (last.op \in {"KeyDown", "KeyUp"}) =>
        LET c    == last.text[1]
            scan == last.layout[c]
            up   == last.op = "KeyUp"
            shifts == {i \in 1..Len(events) : IsShiftEvent(events[i])}
        IN  IF scan = NoVk
            THEN last.err = "there is no vk code for key" /\ events = <<>>
            ELSE /\ last.err = Nil
                 /\ events # <<>>
                 /\ events[Len(events)] = KeyEv(scan % 256, up)
                 /\ (shifts # {}) <=> (isShiftCharacter(c) \/ scan > 256)

C22_Reached ==
    /\ last.op = "KeyDown" /\ last.err = Nil
    /\ last.text = <<8364>>
    /\ last.layout[8364] = 6 * ShiftState + 69
    /\ events = <<KeyEv(VK_SHIFT, FALSE), KeyEv(69, FALSE)>>

C22_NoVkReached ==
    /\ last.op = "KeyUp" /\ last.err # Nil
    /\ last.text = <<201>>

\* An uppercase letter that differs from its lowercase form.
IsUpperLetter(c) == c = ToUpper(c) /\ c # ToLower(c)

\* C23: shift-requirement detection returns true for a single character
\* exactly when it is one of ~!@#$%^&*()_+{}|:"<>? or an uppercase letter
\* that differs from its lowercase form, non-ASCII uppercase letters
\* included, and false for every other character.
C23_ShiftCharactersAnyLetter ==
    (last.op = "isShiftCharacter") =>
        LET c == last.text[1]
        IN  last.res = (c \in ShiftChars \/ IsUpperLetter(c))

\* What the code does: for the characters of one byte (ASCII) the result is
\* as told; for every character of more than one byte it is false.
C23_ShiftCharactersOfOneByte ==
    (last.op = "isShiftCharacter") =>
        LET c == last.text[1]
        IN  IF c < 128
            THEN last.res = (c \in ShiftChars \/ IsUpperLetter(c))
            ELSE last.res = FALSE

C23_Reached ==
    /\ last.op = "isShiftCharacter"
    /\ last.text = <<201>>
    /\ last.res = FALSE

C23_AsciiReached ==
    /\ last.op = "isShiftCharacter"
    /\ last.text = <<90>>
    /\ last.res = TRUE

C24_PerPixelReached ==
    /\ InterpolatedDrag
    /\ last.duration = 800
    /\ last.dim = <<800, 600>>
    /\ StepCount(events) = 800
    /\ events[3] = SleepEv(Dur(1, 0))

\* The event of step i (from 0) of an interpolated drag: the button-down
\* event comes first, then a cursor set and a sleep for every step.
StepSet(i) == events[2 + 2 * i]

Abs(a) == IF a < 0 THEN 0 - a ELSE a

\* p is an integer nearest to from + (to - from) * i / n, that is, no more
\* than 1/2 away from it.
IsNearest(p, from, to, i, n) == Abs(2 * n * (p - from) - 2 * (to - from) * i) <= n

\* C25: at step i of numSteps, 0 <= i < numSteps, DragTo sets the cursor to
\* the integer point nearest to start + (target - start) * i / numSteps, for
\* every start and target, negative coordinates included; step 0 is the
\* start point itself.
C25_DragStepsAreNearestPoints ==
    InterpolatedDrag =>
        LET n == StepCount(events)
        IN  /\ StepSet(0) = CursorEv(last.start[1], last.start[2])
            /\ \A i \in 0..(n - 1) :
                    /\ StepSet(i).kind = "cursor"
                    /\ IsNearest(StepSet(i).x, last.start[1], last.px, i, n)
                    /\ IsNearest(StepSet(i).y, last.start[2], last.py, i, n)

\* What the code does: int(tween + 0.5) drops the fraction of tween + 0.5,
\* which is the nearest integer where tween + 0.5 >= 0 and the integer above
\* the nearest one, or above tween itself, where it is negative.
C25_DragStepsRoundTowardZero ==
    InterpolatedDrag =>
        LET n == StepCount(events)
        IN  \A i \in 0..(n - 1) :
                /\ StepSet(i).kind = "cursor"
                /\ StepSet(i).x = TruncDiv(2 * n * last.start[1]
                                             + 2 * (last.px - last.start[1]) * i + n,
                                           2 * n)
                /\ StepSet(i).y = TruncDiv(2 * n * last.start[2]
                                             + 2 * (last.py - last.start[2]) * i + n,
                                           2 * n)
                /\ (2 * n * last.start[1] + 2 * (last.px - last.start[1]) * i + n >= 0) =>
                        IsNearest(StepSet(i).x, last.start[1], last.px, i, n)
                /\ IsNearest(StepSet(i).y, last.start[2], last.py, i, n)

C25_Reached ==
    /\ InterpolatedDrag
    /\ last.start = <<0 - 5, 20>>
    /\ last.px = 500 /\ last.py = 500
    /\ StepSet(0) = CursorEv(0 - 4, 20)

C25_NearestReached ==
    /\ InterpolatedDrag
    /\ last.start = <<469, 577>>
    /\ last.px = 500 /\ last.py = 500
    /\ last.duration = 200
    /\ StepSet(0) = CursorEv(469, 577)
    /\ StepSet(100).x = 485 /\ StepSet(100).y = 539

Calls(name) == {i \in 1..Len(events) : name \in events[i].flags}

\* C26: CaptureWindow first attempts the PrintWindow draw and sends the
\* window the WM_PRINT request only if that draw reports failure: the request
\* is never sent after a successful draw, always after a failed one, and the
\* pixels are read only after the draw step.
C26_PrintFallbackOnlyOnFailure ==
    (last.op = "CaptureWindow") =>
        IF Calls("SelectObject") = {}
        THEN Calls("PrintWindow") = {} /\ Calls("SendMessage") = {} /\ last.err # Nil
        ELSE \E k \in 1..Len(events) :
                /\ Calls("PrintWindow") = {k}
                /\ "PW_RENDERFULLCONTENT" \in events[k].flags
                /\ Calls("SendMessage") = IF events[k].data = 0 THEN {k + 1} ELSE {}
                /\ \A i \in Calls("SendMessage") :
                        events[i].flags = {"SendMessage", "WM_PRINT", "PRF_ERASEBKGND",
                                           "PRF_CHILDREN", "PRF_CLIENT", "PRF_NONCLIENT"}
                /\ last.err = Nil
                /\ \E p \in Palettes :
                        /\ last.buf = Memory(p, last.size[1] * last.size[2])
                        /\ last.img.pix = PixelLoop(last.buf, last.size[1] * last.size[2])

C26_Reached ==
    /\ last.op = "CaptureWindow"
    /\ last.outcome = "PrintWindow"
    /\ \E k \in 1..Len(events) :
            /\ events[k] = PrintWindow(FALSE)
            /\ events[k + 1] = SendPrint
    /\ last.size = <<2, 1>>
    /\ last.buf = <<10, 20, 30, 0, 200, 100, 50, 255>>

C26_DrawnReached ==
    /\ last.op = "CaptureWindow"
    /\ last.outcome = "ok"
    /\ Calls("SendMessage") = {}
    /\ Calls("PrintWindow") # {}
    /\ last.buf = <<255, 255, 255, 255, 255, 255, 255, 255>>

MouseCalls ==
    {"MouseDown", "MouseUp", "Click", "DoubleClick", "TripleClick",
     "Scroll", "ScrollRaw", "HorizontalScroll"}

\* The point of the last call is on the primary display as it was at the
\* call.
PointOnDisplay ==
    /\ 0 <= last.px /\ last.px <= last.dim[1] - 1
    /\ 0 <= last.py /\ last.py <= last.dim[2] - 1

\* The call was given a button it accepts.
ButtonAccepted ==
    CASE last.op \in {"MouseDown", "MouseUp"} -> last.mb \in 0..6
      [] last.op \in {"Click", "DoubleClick", "TripleClick"} -> last.mb \in DragButtons
      [] OTHER -> TRUE

\* C27: every mouse event is emitted with coordinates normalized against
\* the size of the primary display read at that call: for x in [0, width-1]
\* and y in [0, height-1] the values emitted lie in [0, 65535], 0 gives 0 and
\* width-1 and height-1 give 65535, for every display size with width >= 1
\* and height >= 1, also after a change of the size between two calls.
C27_NormalizedOnEveryDisplay ==
    (last.op \in MouseCalls /\ ButtonAccepted /\ PointOnDisplay) =>
        /\ events # <<>>
        /\ \A i \in 1..Len(events) :
                /\ events[i].kind = "mouse"
                /\ events[i].x \in 0..65535
                /\ events[i].y \in 0..65535
                /\ (last.px = 0) => events[i].x = 0
                /\ (last.py = 0) => events[i].y = 0
                /\ (last.px = last.dim[1] - 1 /\ last.px > 0) => events[i].x = 65535
                /\ (last.py = last.dim[2] - 1 /\ last.py > 0) => events[i].y = 65535

\* What the code does: the same on every display of at least two pixels
\* each way; on a display one pixel wide or high the division by width-1 or
\* height-1 panics and no event is emitted.
C27_NormalizedOnDisplaysOfTwoPixels ==
    (last.op \in MouseCalls /\ ButtonAccepted /\ PointOnDisplay) =>
        IF last.dim[1] = 1 \/ last.dim[2] = 1
        THEN events = <<PanicEv("integer divide by zero")>>
        ELSE /\ events # <<>>
             /\ \A i \in 1..Len(events) :
                    /\ events[i].kind = "mouse"
                    /\ events[i].x = (last.px * 65535) \div (last.dim[1] - 1)
                    /\ events[i].y = (last.py * 65535) \div (last.dim[2] - 1)
                    /\ events[i].x \in 0..65535
                    /\ events[i].y \in 0..65535

C27_Reached ==
    /\ last.op = "MouseDown"
    /\ last.mb = MouseLeftButton
    /\ last.dim = <<1, 1>>
    /\ last.px = 0 /\ last.py = 0
    /\ events = <<PanicEv("integer divide by zero")>>

C27_TwoPixelsReached ==
    /\ last.op = "MouseDown"
    /\ last.mb = MouseLeftButton
    /\ last.dim = <<2, 2>>
    /\ last.px = 1 /\ last.py = 1
    /\ events = <<MouseEv({"LEFTDOWN"}, 65535, 65535, 0)>>

\* Every key-down event of ev is followed by a key-up event of the same
\* key, with no other key-down of that key in between.
EveryDownReleased(ev) ==
    \A i \in 1..Len(ev) :
        (IsKey(ev[i]) /\ ~ev[i].up) =>
            \E j \in (i + 1)..Len(ev) :
                /\ ev[j] = KeyEv(ev[i].vk, TRUE)
                /\ \A k \in (i + 1)..(j - 1) : ev[k] # KeyEv(ev[i].vk, FALSE)

\* C28: on every return of Press, VPress, TypeWrite and Write, with or
\* without an error, each key-down event the call emitted (Shift included)
\* has been followed by a key-up event for the same key, so that no key is
\* left down; a character without virtual-key mapping makes KeyDown fail
\* before any event, Shift included, is emitted.
C28_NoKeyLeftDown ==
    /\ (last.op \in {"Press", "VPress", "TypeWrite", "Write"}) =>
            /\ EveryDownReleased(events)
            /\ KeysDown(events) = {}
            /\ (last.err # Nil) =>
                    \E i \in 1..Len(last.text) : last.layout[last.text[i]] = NoVk
    /\ (last.op = "KeyDown" /\ last.layout[last.text[1]] = NoVk) =>
            last.err # Nil /\ events = <<>>

C28_Reached ==
    /\ last.op = "Press" /\ last.err # Nil
    /\ last.text = <<65, 8364>>
    /\ last.n = 2
    /\ events = <<KeyEv(VK_SHIFT, FALSE), KeyEv(65, FALSE),
                  KeyEv(VK_SHIFT, TRUE), KeyEv(65, TRUE)>>

C28_NoVkReached ==
    /\ last.op = "KeyDown" /\ last.err # Nil
    /\ last.text = <<8364>>
    /\ last.layout = LayoutUS
    /\ events = <<>>

IsDownKey(e) == e.kind = "key" /\ ~e.up

\* The keys pressed by ev, in the order pressed.
DownKeys(ev) ==
    LET dn == SelectSeq(ev, IsDownKey)
    IN  [i \in 1..Len(dn) |-> dn[i].vk]

\* C29: HotKey reverses the caller's key slice in place: after a successful
\* HotKey(interval, keys...) the slice holds the keys in the reverse of the
\* order supplied, and a second HotKey call with the same slice presses the
\* keys in the opposite order from the first call.
C29_HotKeyReversesCallersSlice ==
    /\ []((last.op \in {"HotKey", "HotKeyAgain"} /\ last.err = Nil) =>
             last.keysAfter = Reverse(last.keys))
    /\ [][(last.op = "HotKey" /\ last'.op = "HotKeyAgain") =>
             /\ last'.keys = last.keysAfter
             /\ DownKeys(events) = last.keys
             /\ DownKeys(events') = Reverse(last.keys)]_vars

C29_Reached ==
    /\ last.op = "HotKeyAgain" /\ last.err = Nil
    /\ last.keys = <<VK_C, VK_SHIFT, VK_CONTROL>>
    /\ last.keysAfter = <<VK_CONTROL, VK_SHIFT, VK_C>>
    /\ DownKeys(events) = <<VK_C, VK_SHIFT, VK_CONTROL>>

IsDrag ==
    /\ last.op = "DragTo"
    /\ last.mb \in DragButtons
    /\ last.start # <<last.px, last.py>>

\* C30: every cursor position DragTo sets during a drag lies inside the
\* bounding rectangle of the start position and the target, on each axis
\* min(start, target) <= coordinate <= max(start, target), for every start
\* and target, negative coordinates included.
C30_DragStaysInBoundingBox ==
    IsDrag =>
        \A i \in 1..Len(events) :
            (events[i].kind = "cursor") =>
                /\ Min(last.start[1], last.px) <= events[i].x
                /\ events[i].x <= Max(last.start[1], last.px)
                /\ Min(last.start[2], last.py) <= events[i].y
                /\ events[i].y <= Max(last.start[2], last.py)

\* What the code does: on an axis where start and target are both negative
\* the positions set may lie one pixel beyond the larger of the two; on the
\* other axes they lie between start and target.
C30_DragStaysWithinOnePixel ==
    IsDrag =>
        LET over(a, b) == IF Max(a, b) < 0 THEN Max(a, b) + 1 ELSE Max(a, b)
        IN  \A i \in 1..Len(events) :
                (events[i].kind = "cursor") =>
                    /\ Min(last.start[1], last.px) <= events[i].x
                    /\ events[i].x <= over(last.start[1], last.px)
                    /\ Min(last.start[2], last.py) <= events[i].y
                    /\ events[i].y <= over(last.start[2], last.py)

C30_Reached ==
    /\ IsDrag
    /\ last.duration = 200
    /\ last.start = <<0 - 5, 20>>
    /\ last.px = 0 - 300 /\ last.py = 200
    /\ StepSet(0) = CursorEv(0 - 4, 20)

C30_InsideReached ==
    /\ IsDrag
    /\ last.duration = 2000
    /\ last.start = <<799, 599>>
    /\ last.px = 0 /\ last.py = 0
    /\ \E i \in 1..Len(events) : events[i] = CursorEv(400, 300)

====
